---------------------------- MODULE Spec2Model ----------------------------
(***************************************************************************)
(* Patent Record Fusion & Enrichment Engine (pharmyrus).                   *)
(*                                                                         *)
(* The module models                                                       *)
(*   - the identifier normalisations (inpi_audit.py, inpi_strategies.py),  *)
(*   - the INPI record processing and the strategy-level deduplication,    *)
(*   - the merge of INPI records into the EPO-derived records (main.py),   *)
(*   - the concurrent strategy executor (inpi_strategies.py),              *)
(*   - the enrichment functions and the cascade of search_patents,         *)
(*   - the audit against the benchmark and its rating (inpi_audit.py),     *)
(*   - the extraction of a family, the date formatting, the query loop of  *)
(*     a strategy and the worker task (main.py, inpi_strategies.py,        *)
(*     tasks.py).                                                          *)
(*                                                                         *)
(* Text values are tokens; identifiers are sequences of characters so that *)
(* upper-casing and separator removal are computed, not assumed.           *)
(* Python's None is the token None; a missing dict key is a field outside  *)
(* the DOMAIN of the record (read with Get, as dict.get does).             *)
(***************************************************************************)
EXTENDS Integers, Sequences, FiniteSets, TLC

VARIABLES
    m_pc,        \* merge steps: "collect" | "family" | "merged" | "idle"
    m_targets,   \* search_patents: target_countries
    m_all,       \* execute_all_strategies: all_patents (processed INPI records, arrival order)
    m_unique,    \* execute_all_strategies: unique_patents (inpi_patents of search_patents)
    m_pbc,       \* search_patents: patents_by_country (dict country -> list)
    m_seen,      \* search_patents: seen_patents (raw numbers of the EPO family records)
    m_allp,      \* search_patents: all_patents
    m_nfam,      \* search_patents: number of family responses processed
    m_brepo,     \* search_patents: br_from_epo_google
    e_pc,        \* enrichment calls: "ready" | the step done | "called" | "repeated" | "idle"
    e_rec0,      \* patent_data before the first enrichment call
    e_prev,      \* patent_data before the last enrichment call
    e_rec,       \* patent_data now
    e_op,        \* the last enrichment step: "none" | "primary" | "secondary" | "tertiary"
    e_net,       \* the requests the last enrichment step sent
    e_content,   \* the upstream content of the last step, kept when it is to be replayed
    x_pc,        \* execute_all_strategies: "start" | "gather" | "returned" | "idle"
    x_brand,     \* INPIMultiStrategySearch.brand_name
    x_applicants,\* INPIMultiStrategySearch.applicants
    x_st,        \* per strategy coroutine: its position, queries done, local all_patents
    x_res,       \* the results list of asyncio.gather, one entry per strategy
    x_items,     \* upstream items delivered so far
    x_ret,       \* the value execute_all_strategies returned
    r_pc,        \* search_patents: "start" | "layer1" | "inpi" | "family" | "primary" |
                 \*   "secondary" | "tertiary" | "returned" | "raised" | "idle"
    r_molecule,  \* request.nome_molecula
    r_targets,   \* target_countries
    r_wos,       \* sorted(all_wos)
    r_inpi,      \* inpi_results
    r_pbc,       \* patents_by_country
    r_allp,      \* all_patents
    r_seen,      \* seen_patents
    r_nfam,      \* the number of WOs whose family has been read
    r_added,     \* new_brs_from_inpi and br_from_epo_google
    r_todo,      \* the patent numbers the current enrichment loop still has to visit
    r_net,       \* the enrichment requests sent so far, in the order they were sent
    r_ok,        \* the upstream services that have answered a call of the run
    r_out,       \* what the caller gets: the report, or the exception
    n_pc,        \* _normalize_patent_number: "ready" | "normalized" | "twice" | "idle"
    n_x,         \* an identifier
    n_y,         \* the identifier written with other casing and separators
    n_edits,     \* the number of changes of casing and separators made to it
    n_nx,        \* normalize(x)
    n_ny,        \* normalize(y)
    n_nnx,       \* normalize(normalize(x))
    a_pc,        \* the audit: "created" | "audited" | "idle"
    a_molecule,  \* INPIAuditLayer.molecule_name as given to the constructor
    a_found,     \* found_brs
    a_wos,       \* found_wos
    a_details,   \* strategy_details
    a_bench,     \* INPIAuditLayer.benchmark
    a_report,    \* the value audit_results returned
    q_pc,        \* _calculate_quality_rating: "ready" | "rated" | "idle"
    q_recall,    \* recall, a percentage
    q_precision, \* precision, a percentage
    q_rating,    \* the rating returned
    d_pc,        \* format_date: "ready" | "returned" | "idle"
    d_in,        \* date_str
    d_out,       \* the value format_date returned
    f_pc,        \* get_family_patents: "called" | "returned" | "idle"
    f_targets,   \* target_countries
    f_resp,      \* the response of the family request
    f_patents,   \* the dict get_family_patents returned
    y_pc,        \* _execute_inpi_queries: "awaiting" | "sleeping" | "returned" | "idle"
    y_queries,   \* queries (their labels)
    y_k,         \* idx, the query of the current iteration
    y_all,       \* all_patents
    y_log,       \* the upstream calls and the delays of the loop, in order
    t_pc,        \* search_task: "received" | "started" | "searching" | "succeeded" | "failed" | "idle"
    t_molecule,  \* molecule
    t_countries, \* countries
    t_wipo,      \* include_wipo
    t_progress,  \* the PROGRESS states the task has reported, in order
    t_out        \* what the task returned, or the exception it raised

mergeVars == <<m_pc, m_targets, m_all, m_unique, m_pbc, m_seen, m_allp, m_nfam, m_brepo>>

enrichVars == <<e_pc, e_rec0, e_prev, e_rec, e_op, e_net, e_content>>

execVars == <<x_pc, x_brand, x_applicants, x_st, x_res, x_items, x_ret>>

runVars ==
    <<r_pc, r_molecule, r_targets, r_wos, r_inpi, r_pbc, r_allp, r_seen, r_nfam, r_added, r_todo, r_net,
      r_ok, r_out>>

normVars == <<n_pc, n_x, n_y, n_edits, n_nx, n_ny, n_nnx>>

auditVars == <<a_pc, a_molecule, a_found, a_wos, a_details, a_bench, a_report>>

ratingVars == <<q_pc, q_recall, q_precision, q_rating>>

dateVars == <<d_pc, d_in, d_out>>

familyVars == <<f_pc, f_targets, f_resp, f_patents>>

queryVars == <<y_pc, y_queries, y_k, y_all, y_log>>

taskVars == <<t_pc, t_molecule, t_countries, t_wipo, t_progress, t_out>>

vars == <<mergeVars, enrichVars, execVars, runVars, normVars, auditVars,
          ratingVars,
          dateVars,
          familyVars,
          queryVars,
          taskVars>>

-----------------------------------------------------------------------------
(* Python values *)

None == "<None>"

\* truthiness of an Optional[str]
TruthyS(x) == x # None /\ x # ""

\* truthiness of a list
TruthyL(x) == x # <<>>

\* dict.get(key, default)
Get(d, key, default) == IF key \in DOMAIN d THEN d[key] ELSE default

\* truthiness of d.get(key) for a text field / a list field
HasS(d, key) == TruthyS(Get(d, key, None))
HasL(d, key) == TruthyL(Get(d, key, <<>>))

RECURSIVE SeqToSet(_)
SeqToSet(s) == IF s = <<>> THEN {} ELSE {Head(s)} \cup SeqToSet(Tail(s))

\* parties[:10], inv_list[:10], classifications[:10], applicants[:10], ...
ListCap == 10

Cap(list) == SubSeq(list, 1, IF Len(list) < ListCap THEN Len(list) ELSE ListCap)

-----------------------------------------------------------------------------
(* Identifiers: sequences of characters *)

\* str.upper() on the characters the model uses
Upper(c) == CASE c = "b" -> "B" [] c = "r" -> "R" [] c = "a" -> "A" [] OTHER -> c

UpperStr(s) == [i \in 1..Len(s) |-> Upper(s[i])]

\* str.replace(c, '') for every c in cs
RemoveChars(s, cs) == SelectSeq(s, LAMBDA c : c \notin cs)

\* str.replace(a, b) for single characters
ReplaceChar(s, a, b) == [i \in 1..Len(s) |-> IF s[i] = a THEN b ELSE s[i]]

\* str.startswith(p)
StartsWith(s, p) == Len(s) >= Len(p) /\ SubSeq(s, 1, Len(p)) = p

\* the characters the regular expression class \s matches, among those modelled
Whitespace == {" ", "\t"}

BR == <<"B", "R">>

\* INPIAuditLayer._normalize_patent_number
NormalizePatentNumber(pn) ==
    IF pn = <<>> THEN <<>>
    ELSE LET normalized == RemoveChars(UpperStr(pn), Whitespace \cup {"-", "/"})
         IN  IF ~StartsWith(normalized, BR) THEN BR \o normalized ELSE normalized

\* the key of INPIMultiStrategySearch._deduplicate_patents:
\* patent.get('patent_number', '').upper().replace('-', '').replace(' ', '')
DedupKey(pn) == RemoveChars(RemoveChars(UpperStr(pn), {"-"}), {" "})


-----------------------------------------------------------------------------
(* INPI record processing: INPIMultiStrategySearch._process_inpi_patent *)

\* the function's "return None"
NoRec == [none |-> TRUE]

\* an item of the upstream list that is not a JSON object is modelled as a
\* record with the single key "nondict": raw_patent.get raises and the
\* exception is caught (lines 498-500)
IsDict(raw) == "nondict" \notin DOMAIN raw

ProcessInpiPatent(raw_patent, source_label) ==
    IF ~IsDict(raw_patent) THEN NoRec
    ELSE IF Get(raw_patent, "title", <<>>) = <<>>
            \/ ~StartsWith(Get(raw_patent, "title", <<>>), BR)
    THEN NoRec
    ELSE [ patent_number |-> ReplaceChar(raw_patent["title"], " ", "-"),
           title         |-> Get(raw_patent, "applicant", ""),
           abstract      |-> Get(raw_patent, "fullText", ""),
           filing_date   |-> Get(raw_patent, "depositDate", ""),
           applicants    |-> IF TruthyS(Get(raw_patent, "applicant", None))
                             THEN <<raw_patent["applicant"]>> ELSE <<>>,
           source        |-> <<"inpi_", source_label>>,
           link_nacional |-> raw_patent["title"],
           country       |-> "BR" ]

-----------------------------------------------------------------------------
(* Strategy-level deduplication: INPIMultiStrategySearch._deduplicate_patents *)

\* a bug the loop could have: the key is never remembered
SeenAddForgets(seen, key) == seen

\* seen.add(patent_number)
SeenAdd(seen, key) == seen \cup {key}

\* a bug the loop could have: the "not in seen" test is left out
KeepEveryKeyed(unique, seen, patent, key) ==
    IF key # <<>> THEN Append(unique, patent) ELSE unique

\* if patent_number and patent_number not in seen: unique.append(patent)
KeepFirstSeen(unique, seen, patent, key) ==
    IF key # <<>> /\ key \notin seen THEN Append(unique, patent) ELSE unique

\* a bug the loop could have: it stops at the first duplicate (break for skip)
RECURSIVE DedupLoopBreaks(_, _, _)
DedupLoopBreaks(patents, seen, unique) ==
    IF patents = <<>> THEN unique
    ELSE LET patent == Head(patents)
             key    == DedupKey(Get(patent, "patent_number", <<>>))
         IN  IF key # <<>> /\ key \notin seen
             THEN DedupLoopBreaks(Tail(patents), seen \cup {key}, Append(unique, patent))
             ELSE unique

\* for patent in patents: ... (lines 509-514)
RECURSIVE DedupLoop(_, _, _)
DedupLoop(patents, seen, unique) ==
    IF patents = <<>> THEN unique
    ELSE LET patent == Head(patents)
             key    == DedupKey(Get(patent, "patent_number", <<>>))
         IN  DedupLoop(Tail(patents),
                       IF key # <<>> /\ key \notin seen THEN SeenAdd(seen, key) ELSE seen,
                       KeepFirstSeen(unique, seen, patent, key))

DeduplicatePatents(patents) == DedupLoop(patents, {}, <<>>)

-----------------------------------------------------------------------------
(* search_patents: family records and the merge of the INPI records *)

\* lines 1061-1065, one family record p of country `country`
AddFamilyPatent(st, country, p) ==
    IF p.patent_number \notin st.seen
    THEN [ seen |-> st.seen \cup {p.patent_number},
           pbc  |-> [st.pbc EXCEPT ![country] = Append(@, p)] ]
    ELSE st

RECURSIVE AddFamilyList(_, _, _)
AddFamilyList(st, country, patents) ==
    IF patents = <<>> THEN st
    ELSE AddFamilyList(AddFamilyPatent(st, country, Head(patents)), country, Tail(patents))

\* lines 1060-1065: for country, patents in family_patents.items()
\* (family_patents has the target countries as its keys, in their order)
RECURSIVE AddFamily(_, _, _)
AddFamily(st, family_patents, countries) ==
    IF countries = <<>> THEN st
    ELSE AddFamily(AddFamilyList(st, Head(countries), family_patents[Head(countries)]),
                   family_patents, Tail(countries))

\* lines 1069-1071: all_patents in the key order of patents_by_country
RECURSIVE Flatten(_, _)
Flatten(pbc, countries) ==
    IF countries = <<>> THEN <<>>
    ELSE pbc[Head(countries)] \o Flatten(pbc, Tail(countries))

\* patents_by_country.get('BR', [])
PbcGet(pbc, country) == IF country \in DOMAIN pbc THEN pbc[country] ELSE <<>>

\* patents_by_country.setdefault('BR', []).append(p)
PbcAppend(pbc, country, p) ==
    [c \in DOMAIN pbc \cup {country} |->
        IF c = country THEN Append(PbcGet(pbc, country), p) ELSE pbc[c]]

\* line 1083: patent_number not in seen_br_numbers, the raw strings compared
MergeSame(seen_br_numbers, patent_number) == patent_number \in seen_br_numbers

\* lines 1081-1087, the state being [pbc, allp, seen, added]
RECURSIVE MergeLoop(_, _)
MergeLoop(st, inpi_patents) ==
    IF inpi_patents = <<>> THEN st
    ELSE LET inpi_patent   == Head(inpi_patents)
             patent_number == Get(inpi_patent, "patent_number", <<>>)
         IN  IF patent_number # <<>> /\ ~MergeSame(st.seen, patent_number)
             THEN MergeLoop([ seen  |-> st.seen \cup {patent_number},
                              pbc   |-> PbcAppend(st.pbc, "BR", inpi_patent),
                              allp  |-> Append(st.allp, inpi_patent),
                              added |-> st.added + 1 ],
                            Tail(inpi_patents))
             ELSE MergeLoop(st, Tail(inpi_patents))

\* lines 1069-1087
MergeInpi(pbc, countries, inpi_patents) ==
    MergeLoop([ seen  |-> {PbcGet(pbc, "BR")[i].patent_number : i \in 1..Len(PbcGet(pbc, "BR"))},
                pbc   |-> pbc,
                allp  |-> Flatten(pbc, countries),
                added |-> 0 ],
              inpi_patents)

-----------------------------------------------------------------------------
(* The strategy executor: INPIMultiStrategySearch.execute_all_strategies,   *)
(* the six strategy coroutines and _execute_inpi_queries.                   *)

Strategies == 1..6

\* _get_strategy_name
StrategyName(idx) ==
    CASE idx = 1 -> "Textual Multi-Term"
      [] idx = 2 -> "Applicant/Titular"
      [] idx = 3 -> "IPC/CPC Pharmaceutical"
      [] idx = 4 -> "Temporal Recent (2023-2025)"
      [] idx = 5 -> "Formulations"
      [] idx = 6 -> "Polymorphs & Salts"

\* the number of queries of a strategy that the model follows
MaxQueries == 2

FirstQueries(labels) ==
    SubSeq(labels, 1, IF Len(labels) < MaxQueries THEN Len(labels) ELSE MaxQueries)

\* f'applicant_{idx}', f'formulation_{idx}', f'derivative_{idx}'
Numbered(prefix) ==
    CASE prefix = "applicant_" ->
           <<"applicant_1", "applicant_2", "applicant_3", "applicant_4", "applicant_5",
             "applicant_6", "applicant_7", "applicant_8", "applicant_9", "applicant_10">>
      [] prefix = "formulation_" ->
           <<"formulation_1", "formulation_2", "formulation_3", "formulation_4",
             "formulation_5", "formulation_6", "formulation_7", "formulation_8">>
      [] prefix = "derivative_" ->
           <<"derivative_1", "derivative_2", "derivative_3", "derivative_4", "derivative_5",
             "derivative_6", "derivative_7", "derivative_8", "derivative_9", "derivative_10">>

\* the labels of the queries a strategy builds (dev_codes taken as empty)
QueryLabels(idx, brand, applicants) ==
    CASE idx = 1 -> IF brand # "" THEN <<"molecule_name", "brand_name", "molecule_brand">>
                    ELSE <<"molecule_name">>
      [] idx = 2 -> SubSeq(Numbered("applicant_"), 1, Len(Cap(applicants)))
      [] idx = 3 -> <<"ipc_medicamentos", "ipc_atividade_terapeutica", "ipc_formas_dosagem",
                      "ipc_compostos_organicos", "ipc_excipientes">>
      [] idx = 4 -> <<"temporal_2023_2025">>
      [] idx = 5 -> Numbered("formulation_")
      [] idx = 6 -> Numbered("derivative_")

Queries(idx, brand, applicants) == FirstQueries(QueryLabels(idx, brand, applicants))

\* _execute_inpi_queries lines 448-455: the records one response adds
RECURSIVE ProcessItems(_, _)
ProcessItems(items, label) ==
    IF items = <<>> THEN <<>>
    ELSE LET processed == ProcessInpiPatent(Head(items), label)
         IN  (IF processed # NoRec THEN <<processed>> ELSE <<>>)
                \o ProcessItems(Tail(items), label)

\* _execute_inpi_queries lines 437-461: all_patents after one query; a failed
\* call (request, status or JSON) is caught and adds nothing
AfterQuery(all_patents, resp, label) ==
    IF resp.kind = "items" THEN all_patents \o ProcessItems(resp.items, label)
    ELSE all_patents

\* a deposit date that is a JSON number: comparing it with a string raises
NotAString == "<number>"

\* the order of Python strings on the date texts of the model
StrRank(text) ==
    CASE text = ""           -> 0
      [] text = "01/05/2023" -> 1
      [] text = "2019-01-01" -> 2
      [] text = "2020-01-01" -> 3
      [] text = "2021-01-01" -> 4
      [] text = "2023-01-01" -> 5
      [] text = "2023-05-01" -> 6
      [] text = "31/12/1999" -> 7

StrGE(a, b) == StrRank(a) >= StrRank(b)

\* _strategy_4_temporal_recent line 312
IsRecent(patent) ==
    TruthyS(Get(patent, "filing_date", "")) /\ StrGE(patent.filing_date, "2023-01-01")

\* line 312 raises TypeError on the first record whose date is not a string
DateCompareRaises(patents) ==
    \E i \in 1..Len(patents) : Get(patents[i], "filing_date", "") = NotAString

TypeErrorText == "'>=' not supported between instances of 'int' and 'str'"

\* strategy 1, queries_detail: the records whose source is inpi_textual_<label>
QueriesDetail(queries, patents) ==
    [ q \in 1..Len(queries) |->
        [ label |-> queries[q],
          count |-> Cardinality({i \in 1..Len(patents) :
                                   patents[i].source = <<"inpi_textual_", queries[q]>>}) ] ]

\* the value a strategy coroutine returns once its queries are done, or the
\* exception it ends with
StrategyFinish(idx, patents, queries) ==
    CASE idx = 1 ->
           [ kind |-> "ok", patents |-> patents,
             metadata |-> [ name |-> StrategyName(1), status |-> "success",
                            queries_executed |-> Len(queries),
                            patents_found |-> Len(patents),
                            queries_detail |-> QueriesDetail(queries, patents) ] ]
      [] idx = 4 ->
           IF DateCompareRaises(patents)
           THEN [ kind |-> "exc", error |-> TypeErrorText ]
           ELSE [ kind |-> "ok", patents |-> SelectSeq(patents, IsRecent),
                  metadata |-> [ name |-> StrategyName(4), status |-> "success",
                                 queries_executed |-> Len(queries),
                                 patents_found |-> Len(SelectSeq(patents, IsRecent)),
                                 date_filter |-> "2023-01-01 onwards" ] ]
      [] OTHER ->
           [ kind |-> "ok", patents |-> patents,
             metadata |-> [ name |-> StrategyName(idx), status |-> "success",
                            queries_executed |-> Len(queries),
                            patents_found |-> Len(patents) ] ]

\* a bug the strategy could have: the strategy without input reports success
SkippedAsSuccess ==
    [ kind |-> "ok", patents |-> <<>>,
      metadata |-> [ name |-> StrategyName(2), status |-> "success",
                     reason |-> "no_applicants_provided", patents_found |-> 0 ] ]

\* _strategy_2_applicant lines 209-216
SkippedResult ==
    [ kind |-> "ok", patents |-> <<>>,
      metadata |-> [ name |-> StrategyName(2), status |-> "skipped",
                     reason |-> "no_applicants_provided", patents_found |-> 0 ] ]

\* a bug the consolidation could have: the failed entry without its error
FailedEntryNoError(idx, error) ==
    [ name |-> StrategyName(idx), status |-> "failed", patents_found |-> 0 ]

\* execute_all_strategies lines 90-95
FailedEntry(idx, error) ==
    [ name |-> StrategyName(idx), status |-> "failed", error |-> error, patents_found |-> 0 ]

\* a bug the consolidation could have: the first exception ends the loop
RECURSIVE ConsolidateStopsAtFailure(_, _, _)
ConsolidateStopsAtFailure(results, idx, acc) ==
    IF idx > Len(results) THEN acc
    ELSE IF results[idx].kind = "exc"
         THEN [ all_patents |-> acc.all_patents,
                details |-> [i \in DOMAIN acc.details \cup {idx} |->
                               IF i = idx THEN FailedEntry(idx, results[idx].error)
                               ELSE acc.details[i]] ]
         ELSE ConsolidateStopsAtFailure(results, idx + 1,
                [ all_patents |-> acc.all_patents \o results[idx].patents,
                  details |-> [i \in DOMAIN acc.details \cup {idx} |->
                                 IF i = idx THEN results[idx].metadata ELSE acc.details[i]] ])

\* execute_all_strategies lines 85-100
RECURSIVE Consolidate(_, _, _)
Consolidate(results, idx, acc) ==
    IF idx > Len(results) THEN acc
    ELSE IF results[idx].kind = "exc"
         THEN Consolidate(results, idx + 1,
                [ all_patents |-> acc.all_patents,
                  details |-> [i \in DOMAIN acc.details \cup {idx} |->
                                 IF i = idx THEN FailedEntry(idx, results[idx].error)
                                 ELSE acc.details[i]] ])
         ELSE Consolidate(results, idx + 1,
                [ all_patents |-> acc.all_patents \o results[idx].patents,
                  details |-> [i \in DOMAIN acc.details \cup {idx} |->
                                 IF i = idx THEN results[idx].metadata ELSE acc.details[i]] ])

\* execute_all_strategies lines 82-117: the returned dict
ExecuteAll(results) ==
    LET acc    == Consolidate(results, 1, [all_patents |-> <<>>, details |-> <<>>])
        unique == DeduplicatePatents(acc.all_patents)
    IN  [ patents    |-> unique,
          strategies |-> acc.details,
          summary    |-> [ total_strategies      |-> 6,
                           successful_strategies |->
                               Cardinality({i \in DOMAIN acc.details :
                                              acc.details[i].status = "success"}),
                           total_patents_raw     |-> Len(acc.all_patents),
                           total_patents_unique  |-> Len(unique) ] ]

-----------------------------------------------------------------------------
(* Enrichment: enrich_br_metadata (primary), enrich_from_google_patents     *)
(* (secondary), get_patent_abstract with its caller (tertiary).             *)
(*                                                                          *)
(* A response is modelled by its parsed JSON (EPO) or by what the regular   *)
(* expressions of the function find in the page (Google).                   *)

\* patent_data[key] = value
SetField(pd, key, value) ==
    [k \in DOMAIN pd \cup {key} |-> IF k = key THEN value ELSE pd[k]]

\* " ".join(paras) on the paragraph tokens of the model
Glue(a, b) ==
    CASE a = ""      /\ b = ""      -> " "
      [] a = ""      /\ b = "Para1" -> " Para1"
      [] a = ""      /\ b = "Para2" -> " Para2"
      [] a = "Para1" /\ b = ""      -> "Para1 "
      [] a = "Para1" /\ b = "Para1" -> "Para1 Para1"
      [] a = "Para1" /\ b = "Para2" -> "Para1 Para2"
      [] a = "Para2" /\ b = ""      -> "Para2 "
      [] a = "Para2" /\ b = "Para1" -> "Para2 Para1"
      [] a = "Para2" /\ b = "Para2" -> "Para2 Para2"

SpaceJoin(paras) ==
    IF paras = <<>> THEN ""
    ELSE IF Len(paras) = 1 THEN paras[1]
    ELSE Glue(paras[1], paras[2])

\* the value the code reads from an abstract's "p" element (lines 671-683);
\* Unset when no branch assigns
Unset == "<unset>"

PText(p_elem) ==
    CASE p_elem.k = "dict" -> p_elem.v
      [] p_elem.k = "str"  -> p_elem.v
      [] p_elem.k = "list" -> SpaceJoin(p_elem.paras)
      [] OTHER             -> Unset

Assign(pd, key, value) == IF value = Unset THEN pd ELSE SetField(pd, key, value)

\* the index of the first English-tagged entry, 0 when there is none
FirstEn(items) ==
    IF \E i \in 1..Len(items) : items[i].lang = "en"
    THEN CHOOSE i \in 1..Len(items) :
            items[i].lang = "en" /\ \A j \in 1..(i-1) : items[j].lang # "en"
    ELSE 0

\* a bug the function could have: the title is written without the guard
BrTitleUnguarded(pd, bib) ==
    IF bib.titles # <<>> THEN SetField(pd, "title", bib.titles[1].val) ELSE pd

\* lines 649-659
BrTitle(pd, bib) ==
    IF HasS(pd, "title") THEN pd
    ELSE LET titles == bib.titles
             en     == FirstEn(titles)
             p1     == IF en > 0 THEN SetField(pd, "title", titles[en].val) ELSE pd
         IN  IF ~HasS(p1, "title") /\ titles # <<>>
             THEN SetField(p1, "title", titles[1].val)
             ELSE p1

\* lines 661-716
BrAbstract(pd, bib) ==
    IF HasS(pd, "abstract") THEN pd
    ELSE CASE bib.abstract.shape = "list" ->
                 LET items == bib.abstract.items
                     en    == FirstEn(items)
                     p1    == IF en > 0 THEN Assign(pd, "abstract", PText(items[en].p)) ELSE pd
                 IN  IF ~HasS(p1, "abstract") /\ items # <<>>
                     THEN Assign(p1, "abstract", PText(items[1].p))
                     ELSE p1
           [] bib.abstract.shape = "dict" -> Assign(pd, "abstract", PText(bib.abstract.p))
           [] OTHER -> pd

\* an entry of a parties list that is not a JSON object: p.get raises
NonDict == "<nondict>"

\* lines 723-729 / 738-744: the names that are present
PartyNames(parties) == SelectSeq(Cap(parties), TruthyS)

\* whether reading the parties raises (caught at line 814)
PartiesRaise(parties) == \E i \in 1..Len(Cap(parties)) : parties[i] = NonDict

\* lines 718-731
BrApplicants(pd, bib) ==
    IF HasL(pd, "applicants") THEN pd
    ELSE IF PartyNames(bib.applicants) # <<>>
         THEN SetField(pd, "applicants", PartyNames(bib.applicants))
         ELSE pd

\* lines 733-746
BrInventors(pd, bib) ==
    IF HasL(pd, "inventors") THEN pd
    ELSE IF PartyNames(bib.inventors) # <<>>
         THEN SetField(pd, "inventors", PartyNames(bib.inventors))
         ELSE pd

\* str.strip()
RECURSIVE StripLeft(_)
StripLeft(t) == IF t # <<>> /\ Head(t) \in Whitespace THEN StripLeft(Tail(t)) ELSE t

RECURSIVE StripRight(_)
StripRight(t) ==
    IF t # <<>> /\ t[Len(t)] \in Whitespace THEN StripRight(SubSeq(t, 1, Len(t) - 1)) ELSE t

Strip(t) == StripRight(StripLeft(t))

\* len(ipc_text) >= 4, len(code) >= 4
MinIpcLen == 4

\* lines 770-807: one classification entry added to ipc_codes
IpcAdd(ipc_codes, cls) ==
    IF cls.fmt = "nondict" THEN ipc_codes
    ELSE IF cls.fmt = "text" /\ cls.text # <<>> /\ Len(cls.text) >= MinIpcLen
    THEN Append(ipc_codes, Strip(cls.text))
    ELSE LET section == IF cls.fmt \in {"dict", "str"} THEN cls.section ELSE <<>>
             code    == Strip(section \o cls.class \o cls.subclass \o cls.main_group
                                \o <<"/">> \o cls.subgroup)
         IN  IF section # <<>> /\ code # <<>> /\ code \notin SeqToSet(ipc_codes)
             THEN Append(ipc_codes, code)
             ELSE ipc_codes

RECURSIVE IpcCodes(_, _)
IpcCodes(ipc_codes, classifications) ==
    IF classifications = <<>> THEN ipc_codes
    ELSE IpcCodes(IpcAdd(ipc_codes, Head(classifications)), Tail(classifications))

\* lines 748-810
BrIpc(pd, bib) ==
    IF HasL(pd, "ipc_codes") THEN pd
    ELSE LET ipc_codes == IpcCodes(<<>>, Cap(bib.classifications))
         IN  IF ipc_codes # <<>> THEN SetField(pd, "ipc_codes", ipc_codes) ELSE pd

\* bib = {} (or no bibliographic-data): "if not bib: return patent_data"
EmptyBib == [empty |-> TRUE]

\* a bug the function could have: a failed request clears the title
EnrichBrMetadataFailureClears(pd, resp) ==
    IF resp.kind # "ok" THEN SetField(pd, "title", None)
    ELSE IF resp.bib = EmptyBib THEN pd
    ELSE BrIpc(BrInventors(BrApplicants(BrAbstract(BrTitle(pd, resp.bib), resp.bib), resp.bib),
                           resp.bib), resp.bib)

\* enrich_br_metadata, the record it returns (patent_data, updated in place)
EnrichBrMetadata(pd, resp) ==
    IF resp.kind # "ok" THEN pd
    ELSE IF resp.bib = EmptyBib THEN pd
    ELSE LET bib == resp.bib
             p2  == BrAbstract(BrTitle(pd, bib), bib)
         IN  IF PartiesRaise(bib.applicants) /\ ~HasL(p2, "applicants") THEN p2
             ELSE LET p3 == BrApplicants(p2, bib)
                  IN  IF PartiesRaise(bib.inventors) /\ ~HasL(p3, "inventors") THEN p3
                      ELSE BrIpc(BrInventors(p3, bib), bib)

\* enrich_br_metadata: the requests it sends (line 634, unconditional)
BrNetCalls(pd, resp) == 1

\* the lengths of the abstract texts of the model
TextLen(text) ==
    CASE text = ""                  -> 0
      [] text = "Short"             -> 5
      [] text = "GoogleAbsEN"       -> 40
      [] text = "GoogleAbsPT"       -> 45
      [] text = "GoogleHuge"        -> 3500
      [] text = "GoogleHuge[:3000]" -> 3000

\* len(abstract_text) > 20, abstract_text[:3000]
MinAbstractLen == 20
MaxAbstractLen == 3000

Truncate(text) == IF TextLen(text) > MaxAbstractLen THEN "GoogleHuge[:3000]" ELSE text

\* no match of either abstract pattern in the page
NoMatch == "<nomatch>"

\* lines 874-886 / 889-901: [a for a in found[:10] if a], method 1 before method 2
PageNames(meta, dd) == SelectSeq(Cap(IF meta # <<>> THEN meta ELSE dd), TruthyS)

\* lines 909-913
PageIpc(spans) ==
    LET Stripped == [i \in 1..Len(Cap(spans)) |-> Strip(spans[i])]
    IN  SelectSeq(Stripped, LAMBDA code : code # <<>> /\ Len(code) >= MinIpcLen)

\* lines 874-916 of one loop iteration: applicants, inventors, IPC codes
GoogleParties(pd, page) ==
    LET applicants == PageNames(page.applicants_meta, page.applicants_dd)
        p1 == IF ~HasL(pd, "applicants") /\ applicants # <<>>
              THEN SetField(pd, "applicants", applicants) ELSE pd
        inventors  == PageNames(page.inventors_meta, page.inventors_dd)
        p2 == IF ~HasL(p1, "inventors") /\ inventors # <<>>
              THEN SetField(p1, "inventors", inventors) ELSE p1
        codes      == PageIpc(page.ipc_spans)
    IN  IF ~HasL(p2, "ipc_codes") /\ codes # <<>>
        THEN SetField(p2, "ipc_codes", codes) ELSE p2

\* lines 919-921
GoogleFoundAny(pd) ==
    HasS(pd, "abstract") \/ HasL(pd, "applicants") \/ HasL(pd, "inventors") \/ HasL(pd, "ipc_codes")

\* lines 834-921, one iteration of "for lang in ['en', 'pt']": the record, and
\* whether the loop is left (break at 872 or 921, or the request raised)
GoogleLang(pd, page) ==
    IF page.status = "error" THEN [pd |-> pd, stop |-> TRUE, sent |-> 1]
    ELSE IF page.status # "200" THEN [pd |-> pd, stop |-> FALSE, sent |-> 1]
    ELSE IF ~HasS(pd, "abstract") /\ page.abstract # NoMatch /\ TruthyS(page.abstract)
            /\ TextLen(page.abstract) > MinAbstractLen
    THEN [pd |-> SetField(pd, "abstract", Truncate(page.abstract)), stop |-> TRUE, sent |-> 1]
    ELSE LET p1 == GoogleParties(pd, page)
         IN  [pd |-> p1, stop |-> GoogleFoundAny(p1), sent |-> 1]

\* a bug the function could have: no check on entry
GoogleGateMissing(pd) == FALSE

\* lines 825-829: "Se ja tem tudo, nao precisa buscar"
GoogleGate(pd) ==
    HasS(pd, "abstract") /\ HasL(pd, "applicants") /\ HasL(pd, "inventors") /\ HasL(pd, "ipc_codes")

\* enrich_from_google_patents: the record and the requests sent
GoogleRun(pd, content) ==
    IF GoogleGate(pd) THEN [pd |-> pd, sent |-> 0]
    ELSE LET en == GoogleLang(pd, content.en)
         IN  IF en.stop THEN [pd |-> en.pd, sent |-> en.sent]
             ELSE LET pt == GoogleLang(en.pd, content.pt)
                  IN  [pd |-> pt.pd, sent |-> en.sent + pt.sent]

EnrichFromGooglePatents(pd, content) == GoogleRun(pd, content).pd

GoogleNetCalls(pd, content) == GoogleRun(pd, content).sent

\* get_patent_abstract lines 141-147: the first English item whose p is a dict
\* or a string decides
RECURSIVE AbstractEnScan(_)
AbstractEnScan(items) ==
    IF items = <<>> THEN Unset
    ELSE IF Head(items).lang = "en" /\ Head(items).p.k \in {"dict", "str"}
         THEN Head(items).p.v
         ELSE AbstractEnScan(Tail(items))

\* get_patent_abstract: the value it returns
GetPatentAbstract(resp) ==
    IF resp.kind # "ok" THEN None
    ELSE LET en == AbstractEnScan(resp.items)
         IN  IF en # Unset THEN en
             ELSE IF resp.items # <<>> /\ resp.items[1].p.k \in {"dict", "str"}
                  THEN resp.items[1].p.v
                  ELSE None

\* search_patents line 1133: p.get("abstract") is None
AbstractIsNone(pd) == Get(pd, "abstract", None) = None

\* search_patents lines 1133-1140 for one record
TertiaryStep(pd, resp) ==
    IF AbstractIsNone(pd) /\ TruthyS(GetPatentAbstract(resp))
    THEN SetField(pd, "abstract", GetPatentAbstract(resp))
    ELSE pd

TertiaryNetCalls(pd, resp) == IF AbstractIsNone(pd) THEN 1 ELSE 0

\* search_patents lines 1094-1097: the filter of the primary loop
Incomplete(pd) ==
    ~HasS(pd, "title") \/ ~HasS(pd, "abstract") \/ ~HasL(pd, "applicants")
        \/ ~HasL(pd, "inventors") \/ ~HasL(pd, "ipc_codes")

\* search_patents lines 1113-1116: the filter of the secondary loop
StillIncomplete(pd) ==
    ~HasS(pd, "abstract") \/ ~HasL(pd, "applicants") \/ ~HasL(pd, "inventors")
        \/ ~HasL(pd, "ipc_codes")

\* no enrichment call is in progress
NoContent == [none |-> TRUE]

EnrichIdle ==
    /\ e_pc = "idle" /\ e_rec0 = NoRec /\ e_prev = NoRec /\ e_rec = NoRec
    /\ e_op = "none" /\ e_net = 0 /\ e_content = NoContent

\* execute_all_strategies is not running
NoResult == [kind |-> "none"]
NoReturn == [none |-> TRUE]

ExecIdle ==
    /\ x_pc = "idle" /\ x_brand = "" /\ x_applicants = <<>> /\ x_st = <<>>
    /\ x_res = <<>> /\ x_items = 0 /\ x_ret = NoReturn

\* no search is running
RunIdle ==
    /\ r_pc = "idle" /\ r_molecule = "" /\ r_targets = <<>> /\ r_wos = <<>> /\ r_inpi = NoReturn
    /\ r_pbc = <<>> /\ r_allp = <<>> /\ r_seen = {} /\ r_nfam = 0
    /\ r_added = NoReturn /\ r_todo = <<>> /\ r_net = <<>> /\ r_ok = {} /\ r_out = NoReturn

\* no identifier is being normalised
NormIdle ==
    /\ n_pc = "idle" /\ n_x = <<>> /\ n_y = <<>> /\ n_edits = 0
    /\ n_nx = <<>> /\ n_ny = <<>> /\ n_nnx = <<>>

\* no audit is running
AuditIdle ==
    /\ a_pc = "idle" /\ a_molecule = "" /\ a_found = <<>> /\ a_wos = 0
    /\ a_details = <<>> /\ a_bench = NoReturn /\ a_report = NoReturn

\* no task is running
TaskIdle ==
    /\ t_pc = "idle" /\ t_molecule = "" /\ t_countries = <<>> /\ t_wipo = FALSE
    /\ t_progress = <<>> /\ t_out = NoReturn

\* no query loop is running
QueryIdle ==
    /\ y_pc = "idle" /\ y_queries = <<>> /\ y_k = 0 /\ y_all = <<>> /\ y_log = <<>>

\* no family is being read
FamilyIdle ==
    /\ f_pc = "idle" /\ f_targets = <<>> /\ f_resp = NoReturn /\ f_patents = <<>>

\* no date is being formatted
DateIdle ==
    /\ d_pc = "idle" /\ d_in = <<>> /\ d_out = <<>>

\* no rating is being computed
RatingIdle ==
    /\ q_pc = "idle" /\ q_recall = 0 /\ q_precision = 0 /\ q_rating = NoReturn

-----------------------------------------------------------------------------
(* The merge steps of a run: the strategies' records arrive, are            *)
(* deduplicated (execute_all_strategies), the EPO family records arrive     *)
(* and the INPI records are merged into them (search_patents).              *)

MaxArrivals == 3
MaxFamilies == 1

B1   == <<"B", "R", "1">>
Ipc0 == <<"A", "6", "K", "3", "/", "0">>
U9   == <<"U", "S", "9">>

\* what the INPI crawler can return as one item of data['data'], with the
\* label of the query that fetched it
InpiArrivals ==
    { <<[title |-> B1, applicant |-> "Acme", fullText |-> "abs", depositDate |-> "2023-05-01"],
        "molecule_name">>,
      <<[title |-> <<"B", "R", " ", "1">>, applicant |-> "", fullText |-> "", depositDate |-> ""],
        "temporal_2023_2025">>,
      <<[title |-> <<"B", "R", "/", "1">>, applicant |-> "Acme", fullText |-> None, depositDate |-> ""],
        "molecule_name">>,
      <<[title |-> <<"B", "R", "2", "a">>, applicant |-> "", fullText |-> "abs2", depositDate |-> ""],
        "molecule_name">>,
      <<[title |-> <<"B", "R", "2", "A">>, applicant |-> "Orion", fullText |-> "", depositDate |-> "2021-01-01"],
        "ipc_medicamentos">>,
      <<[title |-> <<"b", "r", "1">>, applicant |-> "Acme", fullText |-> "abs", depositDate |-> ""],
        "molecule_name">>,
      <<[nondict |-> TRUE], "molecule_name">> }

\* a record as get_family_patents builds it (lines 602-619), the fields the
\* merge and the enrichment read
EpoRecord(number, country, title, abstract, applicants, inventors, ipc_codes, pub) ==
    [ patent_number |-> number, country |-> country, title |-> title,
      abstract |-> abstract, applicants |-> applicants, inventors |-> inventors,
      ipc_codes |-> ipc_codes, publication_date |-> pub ]

MergeEpoPool ==
    { EpoRecord(B1, "BR", "Title1", None, <<>>, <<>>, <<>>, "2020-01-01"),
      EpoRecord(U9, "US", "Title9", "EpoAbs", <<"Orion">>, <<"Inv">>, <<Ipc0>>, "2019-01-01") }

\* the family responses of one WO: per target country no record or one
MergeFamilyResults(targets) ==
    { fp \in [SeqToSet(targets) -> {<<>>} \cup {<<r>> : r \in MergeEpoPool}] :
        \A c \in SeqToSet(targets) : \A i \in 1..Len(fp[c]) : fp[c][i].country = c }

MergeTargets == { <<"BR">>, <<"US", "BR">> }

MergeIdle ==
    /\ m_pc = "idle" /\ m_targets = <<>> /\ m_all = <<>> /\ m_unique = <<>>
    /\ m_pbc = <<>> /\ m_seen = {} /\ m_allp = <<>> /\ m_nfam = 0 /\ m_brepo = 0

MergeInit ==
    /\ m_pc = "collect"
    /\ m_targets \in MergeTargets
    /\ m_all = <<>>
    /\ m_unique = <<>>
    /\ m_pbc = [c \in SeqToSet(m_targets) |-> <<>>]
    /\ m_seen = {}
    /\ m_allp = <<>>
    /\ m_nfam = 0
    /\ m_brepo = 0
    /\ EnrichIdle /\ ExecIdle /\ RunIdle /\ NormIdle /\ AuditIdle /\ RatingIdle /\ DateIdle /\ FamilyIdle /\ QueryIdle /\ TaskIdle

\* _execute_inpi_queries lines 452-455 and execute_all_strategies line 100:
\* one upstream item is processed and, if valid, joins all_patents
InpiArrive(a) ==
    /\ m_pc = "collect"
    /\ Len(m_all) < MaxArrivals
    /\ LET processed == ProcessInpiPatent(a[1], a[2])
       IN  m_all' = IF processed # NoRec THEN Append(m_all, processed) ELSE m_all
    /\ UNCHANGED <<m_pc, m_targets, m_unique, m_pbc, m_seen, m_allp, m_nfam, m_brepo>>
    /\ UNCHANGED <<enrichVars, execVars, runVars, normVars, auditVars, ratingVars, dateVars, familyVars, queryVars, taskVars>>

\* execute_all_strategies line 103
Deduplicate ==
    /\ m_pc = "collect"
    /\ m_unique' = DeduplicatePatents(m_all)
    /\ m_pc' = "family"
    /\ UNCHANGED <<m_targets, m_all, m_pbc, m_seen, m_allp, m_nfam, m_brepo>>
    /\ UNCHANGED <<enrichVars, execVars, runVars, normVars, auditVars, ratingVars, dateVars, familyVars, queryVars, taskVars>>

\* search_patents lines 1058-1065, one WO's family response
EpoFamily(fp) ==
    /\ m_pc = "family"
    /\ m_nfam < MaxFamilies
    /\ LET st == AddFamily([seen |-> m_seen, pbc |-> m_pbc], fp, m_targets)
       IN  /\ m_seen' = st.seen
           /\ m_pbc' = st.pbc
    /\ m_nfam' = m_nfam + 1
    /\ UNCHANGED <<m_pc, m_targets, m_all, m_unique, m_allp, m_brepo>>
    /\ UNCHANGED <<enrichVars, execVars, runVars, normVars, auditVars, ratingVars, dateVars, familyVars, queryVars, taskVars>>

\* search_patents lines 1069-1087
MergeStep ==
    /\ m_pc = "family"
    /\ LET st == MergeInpi(m_pbc, m_targets, m_unique)
       IN  /\ m_pbc' = st.pbc
           /\ m_allp' = st.allp
    /\ m_brepo' = Len(PbcGet(m_pbc, "BR"))
    /\ m_pc' = "merged"
    /\ UNCHANGED <<m_targets, m_all, m_unique, m_seen, m_nfam>>
    /\ UNCHANGED <<enrichVars, execVars, runVars, normVars, auditVars, ratingVars, dateVars, familyVars, queryVars, taskVars>>

MergeNext ==
    \/ \E a \in InpiArrivals : InpiArrive(a)
    \/ Deduplicate
    \/ \E fp \in MergeFamilyResults(m_targets) : EpoFamily(fp)
    \/ MergeStep

SpecMerge == MergeInit /\ [][MergeNext]_vars

-----------------------------------------------------------------------------
(* Claims on the merge steps (SpecMerge) *)

Numbers(records) == {records[i].patent_number : i \in 1..Len(records)}

KeyOf(patent) == DedupKey(patent.patent_number)

KeySet(records) == {KeyOf(records[i]) : i \in 1..Len(records)}

RecordSet(records) == {records[i] : i \in 1..Len(records)}

\* the index of the first record of `records` carrying the key of records[i]
FirstWithKey(records, i) ==
    CHOOSE j \in 1..i : /\ KeyOf(records[j]) = KeyOf(records[i])
                        /\ \A k \in 1..(j-1) : KeyOf(records[k]) # KeyOf(records[i])

\* the fields of an INPI record that carry bibliographic data
TextFields == {"title", "abstract", "filing_date"}

NonEmptyField(patent, f) ==
    IF f = "applicants" THEN HasL(patent, f) ELSE HasS(patent, f)

Orders(n) == {f \in [1..n -> 1..n] : \A i, j \in 1..n : f[i] = f[j] => i = j}

Permute(records, f) == [i \in 1..Len(records) |-> records[f[i]]]

\* C3 (as claimed): after the merge steps the final record set holds at most
\* one record per distinct normalised patent number.
C3_OneRecordPerNormalizedNumber ==
    m_pc = "merged" =>
        \A i, j \in 1..Len(m_allp) :
            NormalizePatentNumber(m_allp[i].patent_number)
              = NormalizePatentNumber(m_allp[j].patent_number) => i = j

\* C4 (as claimed): two identifiers are taken for the same record by the
\* deduplication (strategy level: equal keys; merge: equal raw strings) if
\* and only if the audit's normalisation takes them for the same identifier.
C4_DedupAgreesWithAudit ==
    /\ \A i, j \in 1..Len(m_all) :
          (KeyOf(m_all[i]) = KeyOf(m_all[j]))
            <=> (NormalizePatentNumber(m_all[i].patent_number)
                   = NormalizePatentNumber(m_all[j].patent_number))
    /\ m_pc = "family" =>
          \A n \in Numbers(PbcGet(m_pbc, "BR")) : \A q \in Numbers(m_unique) :
              MergeSame({n}, q) <=> (NormalizePatentNumber(n) = NormalizePatentNumber(q))

Biblio(patent) ==
    [f \in TextFields |-> Get(patent, f, None)] @@ [applicants |-> Get(patent, "applicants", <<>>)]

C7_DedupIdempotent ==
    m_pc # "collect" =>
        /\ DeduplicatePatents(m_unique) = m_unique
        /\ DeduplicatePatents(m_unique \o m_unique) = m_unique

\* C7 witness: a deduplication that dropped a record and kept two.
C7_Witness ==
    m_pc # "collect" /\ Len(m_unique) = 2 /\ Len(m_all) = 3

-----------------------------------------------------------------------------
(* The enrichment functions called on a record.  SpecEnrich: the three      *)
(* steps in the order of search_patents, each of them run or left out.      *)
(* SpecRepeat: one step, repeated with the same upstream content.           *)

\* records as get_family_patents builds them and as _process_inpi_patent
\* builds them (no inventors, no ipc_codes)
EnrichRecords ==
    { EpoRecord(B1, "BR", t, a, ap, inv, ipc, "2020-01-01") :
        t \in {None, "T0"}, a \in {None, "A0"}, ap \in {<<>>, <<"Acme">>},
        inv \in {<<>>, <<"Inv0">>}, ipc \in {<<>>, <<Ipc0>>} }
    \cup
    { ProcessInpiPatent([title |-> B1, applicant |-> ap, fullText |-> ft, depositDate |-> ""],
                        "molecule_name") :
        ap \in {"", "Acme"}, ft \in {None, "", "A0"} }
    \cup
    { EpoRecord(U9, "US", "T0", None, <<>>, <<>>, <<>>, "2019-01-01") }

TitleOpts ==
    { <<>>,
      <<[lang |-> "en", val |-> "TitleEN"]>>,
      <<[lang |-> "pt", val |-> "TituloPT"], [lang |-> "en", val |-> "TitleEN"]>>,
      <<[lang |-> "en", val |-> None], [lang |-> "pt", val |-> "TituloPT"]>> }

AbsOpts ==
    { [shape |-> "absent"],
      [shape |-> "list", items |-> <<[lang |-> "en", p |-> [k |-> "dict", v |-> "AbsEN"]]>>],
      [shape |-> "list", items |-> <<[lang |-> "pt", p |-> [k |-> "str", v |-> "AbsPT"]],
                                     [lang |-> "en", p |-> [k |-> "list", paras |-> <<"Para1", "Para2">>]]>>],
      [shape |-> "list", items |-> <<[lang |-> "pt", p |-> [k |-> "dict", v |-> "AbsPT"]],
                                     [lang |-> "en", p |-> [k |-> "other"]]>>],
      [shape |-> "dict", p |-> [k |-> "dict", v |-> None]],
      [shape |-> "dict", p |-> [k |-> "str", v |-> "AbsEN"]] }

ApplOpts == { <<>>, <<"Bayer">>, <<None, "Bayer", "Orion">>, <<"Bayer", NonDict>> }

InvOpts == { <<>>, <<"Inv1">> }

Cls(fmt, section, text) ==
    [ fmt |-> fmt, section |-> section, class |-> <<"6">>, subclass |-> <<"K">>,
      main_group |-> <<"3">>, subgroup |-> <<"0">>, text |-> text ]

ClsOpts ==
    { <<>>,
      <<Cls("dict", <<"A">>, <<>>), Cls("str", <<"A">>, <<>>), Cls("nondict", <<>>, <<>>)>>,
      <<Cls("text", <<>>, <<" ">> \o Ipc0), Cls("text", <<>>, Ipc0), Cls("text", <<>>, <<"A", "6">>)>> }

BrResponses ==
    { [kind |-> "error"], [kind |-> "status"], [kind |-> "ok", bib |-> EmptyBib] }
    \cup
    { [kind |-> "ok",
       bib  |-> [titles |-> t, abstract |-> a, applicants |-> ap, inventors |-> inv,
                 classifications |-> c]] :
        t \in TitleOpts, a \in AbsOpts, ap \in ApplOpts, inv \in InvOpts, c \in ClsOpts }

Page(abstract, applicants_meta, applicants_dd, inventors_meta, ipc_spans) ==
    [ status |-> "200", abstract |-> abstract,
      applicants_meta |-> applicants_meta, applicants_dd |-> applicants_dd,
      inventors_meta |-> inventors_meta, inventors_dd |-> <<>>, ipc_spans |-> ipc_spans ]

\* a response that is not a 200, and a request that raises
PageNot200 == [status |-> "404"]
PageError  == [status |-> "error"]

EnPages ==
    { PageNot200, PageError }
    \cup
    { Page(a, ap[1], ap[2], inv, ipc) :
        a   \in {NoMatch, "Short", "GoogleAbsEN", "GoogleHuge"},
        ap  \in {<< <<>>, <<>> >>, << <<"Bayer">>, <<"Orion">> >>, << <<>>, <<"", "Orion">> >>},
        inv \in {<<>>, <<"Inv2">>},
        ipc \in {<<>>, << <<"A", "6">>, Ipc0 \o <<" ">> >>} }

PtPages ==
    { PageNot200, PageError,
      Page(NoMatch, <<>>, <<>>, <<>>, <<>>),
      Page("GoogleAbsPT", <<"Bayer">>, <<>>, <<"Inv2">>, <<Ipc0>>),
      Page(NoMatch, <<"Bayer">>, <<>>, <<"Inv2">>, <<Ipc0>>) }

GoogleContents == { [en |-> en, pt |-> pt] : en \in EnPages, pt \in PtPages }

AbstractResponses ==
    { [kind |-> "error"], [kind |-> "status"], [kind |-> "ok", items |-> <<>>],
      [kind |-> "ok", items |-> <<[lang |-> "pt", p |-> [k |-> "str", v |-> "AbsPT"]],
                                  [lang |-> "en", p |-> [k |-> "other"]],
                                  [lang |-> "en", p |-> [k |-> "dict", v |-> "AbsEN"]]>>],
      [kind |-> "ok", items |-> <<[lang |-> "pt", p |-> [k |-> "dict", v |-> "AbsPT"]]>>],
      [kind |-> "ok", items |-> <<[lang |-> "en", p |-> [k |-> "dict", v |-> None]],
                                  [lang |-> "pt", p |-> [k |-> "str", v |-> "AbsPT"]]>>] }

EnrichInit ==
    /\ e_pc = "ready"
    /\ e_rec0 \in EnrichRecords
    /\ e_prev = e_rec0
    /\ e_rec = e_rec0
    /\ e_op = "none"
    /\ e_net = 0
    /\ e_content = NoContent
    /\ MergeIdle /\ ExecIdle /\ RunIdle /\ NormIdle /\ AuditIdle /\ RatingIdle /\ DateIdle /\ FamilyIdle /\ QueryIdle /\ TaskIdle

\* search_patents lines 1093-1104 for one record: the primary loop
PrimaryLoopStep(pd, resp) ==
    IF pd.country = "BR" /\ Incomplete(pd) THEN EnrichBrMetadata(pd, resp) ELSE pd

PrimaryLoopNet(pd, resp) ==
    IF pd.country = "BR" /\ Incomplete(pd) THEN BrNetCalls(pd, resp) ELSE 0

\* search_patents lines 1113-1122 for one record: the secondary loop
SecondaryLoopStep(pd, content) ==
    IF pd.country = "BR" /\ StillIncomplete(pd) THEN EnrichFromGooglePatents(pd, content) ELSE pd

SecondaryLoopNet(pd, content) ==
    IF pd.country = "BR" /\ StillIncomplete(pd) THEN GoogleNetCalls(pd, content) ELSE 0

\* the steps: the three functions called directly, and the three loops of
\* search_patents (caller's filter, then the function) seen from one record
DirectOps == {"enrich_br_metadata", "enrich_from_google_patents", "get_patent_abstract"}
LoopOps   == {"primary_loop", "secondary_loop", "tertiary_loop"}

\* one enrichment step applied to a record with a given upstream content
EnrichStep(op, pd, content) ==
    CASE op = "enrich_br_metadata"         -> EnrichBrMetadata(pd, content)
      [] op = "enrich_from_google_patents" -> EnrichFromGooglePatents(pd, content)
      [] op = "get_patent_abstract"        -> pd
      [] op = "primary_loop"               -> PrimaryLoopStep(pd, content)
      [] op = "secondary_loop"             -> SecondaryLoopStep(pd, content)
      [] op = "tertiary_loop"              -> TertiaryStep(pd, content)

\* the requests the step sends
EnrichStepNet(op, pd, content) ==
    CASE op = "enrich_br_metadata"         -> BrNetCalls(pd, content)
      [] op = "enrich_from_google_patents" -> GoogleNetCalls(pd, content)
      [] op = "get_patent_abstract"        -> 1
      [] op = "primary_loop"               -> PrimaryLoopNet(pd, content)
      [] op = "secondary_loop"             -> SecondaryLoopNet(pd, content)
      [] op = "tertiary_loop"              -> TertiaryNetCalls(pd, content)

\* the primary lookup: enrich_br_metadata itself, or through the loop
CallPrimary(op, resp) ==
    /\ e_pc = "ready"
    /\ e_pc' = "primary"
    /\ e_prev' = e_rec
    /\ e_rec' = EnrichStep(op, e_rec, resp)
    /\ e_op' = op
    /\ e_net' = EnrichStepNet(op, e_rec, resp)
    /\ UNCHANGED <<e_rec0, e_content>>
    /\ UNCHANGED <<mergeVars, execVars, runVars, normVars, auditVars, ratingVars, dateVars, familyVars, queryVars, taskVars>>

\* the secondary fetch: enrich_from_google_patents itself, or through the loop
CallSecondary(op, content) ==
    /\ e_pc \in {"ready", "primary"}
    /\ e_pc' = "secondary"
    /\ e_prev' = e_rec
    /\ e_rec' = EnrichStep(op, e_rec, content)
    /\ e_op' = op
    /\ e_net' = EnrichStepNet(op, e_rec, content)
    /\ UNCHANGED <<e_rec0, e_content>>
    /\ UNCHANGED <<mergeVars, execVars, runVars, normVars, auditVars, ratingVars, dateVars, familyVars, queryVars, taskVars>>

\* the tertiary abstract fetch: get_patent_abstract itself, or through the loop
CallTertiary(op, resp) ==
    /\ e_pc \in {"ready", "primary", "secondary"}
    /\ e_pc' = "tertiary"
    /\ e_prev' = e_rec
    /\ e_rec' = EnrichStep(op, e_rec, resp)
    /\ e_op' = op
    /\ e_net' = EnrichStepNet(op, e_rec, resp)
    /\ UNCHANGED <<e_rec0, e_content>>
    /\ UNCHANGED <<mergeVars, execVars, runVars, normVars, auditVars, ratingVars, dateVars, familyVars, queryVars, taskVars>>

EnrichNext ==
    \/ \E op \in {"enrich_br_metadata", "primary_loop"} :
          \E resp \in BrResponses : CallPrimary(op, resp)
    \/ \E op \in {"enrich_from_google_patents", "secondary_loop"} :
          \E content \in GoogleContents : CallSecondary(op, content)
    \/ \E op \in {"get_patent_abstract", "tertiary_loop"} :
          \E resp \in AbstractResponses : CallTertiary(op, resp)

SpecEnrich == EnrichInit /\ [][EnrichNext]_vars

\* the first run of a step; the upstream content is remembered
RunOnce(op, content) ==
    /\ e_pc = "ready"
    /\ e_pc' = "called"
    /\ e_prev' = e_rec
    /\ e_rec' = EnrichStep(op, e_rec, content)
    /\ e_op' = op
    /\ e_net' = EnrichStepNet(op, e_rec, content)
    /\ e_content' = content
    /\ UNCHANGED e_rec0
    /\ UNCHANGED <<mergeVars, execVars, runVars, normVars, auditVars, ratingVars, dateVars, familyVars, queryVars, taskVars>>

\* the same step run again on the record it returned; upstream unchanged
RunAgain ==
    /\ e_pc = "called"
    /\ e_pc' = "repeated"
    /\ e_prev' = e_rec
    /\ e_rec' = EnrichStep(e_op, e_rec, e_content)
    /\ e_net' = EnrichStepNet(e_op, e_rec, e_content)
    /\ UNCHANGED <<e_rec0, e_op, e_content>>
    /\ UNCHANGED <<mergeVars, execVars, runVars, normVars, auditVars, ratingVars, dateVars, familyVars, queryVars, taskVars>>

RepeatNext ==
    \/ \E resp \in BrResponses : RunOnce("enrich_br_metadata", resp)
    \/ \E content \in GoogleContents : RunOnce("enrich_from_google_patents", content)
    \/ \E resp \in AbstractResponses : RunOnce("tertiary_loop", resp)
    \/ RunAgain

SpecRepeat == EnrichInit /\ [][RepeatNext]_vars

-----------------------------------------------------------------------------
(* Claims on the enrichment steps (SpecEnrich, SpecRepeat) *)

EnrichText  == {"title", "abstract"}
EnrichLists == {"applicants", "inventors", "ipc_codes"}

\* the field holds the same value in both records
SameField(f, before, after) == f \in DOMAIN after /\ after[f] = before[f]

\* every field that is populated in before holds the same value in after
KeepsPopulated(before, after) ==
    /\ \A f \in EnrichText  : HasS(before, f) => SameField(f, before, after)
    /\ \A f \in EnrichLists : HasL(before, f) => SameField(f, before, after)

\* C8: a field among title, abstract, applicants, inventors, ipc_codes that
\* was non-empty before the enrichment steps (and before the last of them)
\* has the same value after them, whatever the primary lookup, the secondary
\* fetch and the tertiary abstract fetch returned.
C8_NeverOverwritesPopulated ==
    e_pc \in {"primary", "secondary", "tertiary"} =>
        KeepsPopulated(e_rec0, e_rec) /\ KeepsPopulated(e_prev, e_rec)

\* C8 witness: the three steps ran on a record that had a title and no
\* abstract; the tertiary fetch has just filled the abstract, the title is
\* the one the record started with.
C8_Witness ==
    /\ e_pc = "tertiary" /\ e_op = "tertiary_loop"
    /\ HasS(e_rec0, "title") /\ ~HasS(e_rec0, "abstract")
    /\ HasS(e_rec, "abstract") /\ e_rec # e_prev
    /\ e_rec.title = e_rec0.title

\* C9: running an enrichment step a second time on the record it returned,
\* with the same upstream content, leaves the record as the first run left it.
C9_EnrichmentIdempotent ==
    e_pc = "repeated" => e_rec = e_prev

\* C10 as stated: each enrichment step entered with a complete record sends
\* no request and leaves the record unchanged.
C10_CompleteRecordNoNetwork ==
    (e_op # "none" /\ ~Incomplete(e_prev)) => (e_net = 0 /\ e_rec = e_prev)

\* C10 amended: a complete record is left unchanged by every enrichment
\* step; no request is sent for it by the loops of search_patents (whose
\* filters are the completeness checks) nor by enrich_from_google_patents
\* (which checks on entry), while enrich_br_metadata and get_patent_abstract
\* called directly send their request.
C10_CompleteRecordGatedByCaller ==
    (e_op # "none" /\ ~Incomplete(e_prev)) =>
        /\ e_rec = e_prev
        /\ e_op \in LoopOps \cup {"enrich_from_google_patents"} => e_net = 0
        /\ e_op \in {"enrich_br_metadata", "get_patent_abstract"} => e_net = 1

\* C10 witness: the primary loop of search_patents reached a complete record
\* and sent nothing.
C10_Witness ==
    e_op = "primary_loop" /\ ~Incomplete(e_prev) /\ e_net = 0 /\ e_rec = e_prev

-----------------------------------------------------------------------------
(* The strategies run concurrently (SpecExec): a coroutine advances from    *)
(* one await to the next, the coroutines interleave, and the results are    *)
(* consolidated once all six have ended.                                    *)

\* the upstream items delivered in one run, over all queries (an answer
\* without items counts as one)
MaxItems == 1

RawRecent == [title |-> B1, applicant |-> "Acme", fullText |-> "abs", depositDate |-> "2023-05-01"]
RawOld    == [title |-> <<"B", "R", " ", "1">>, applicant |-> "", fullText |-> "", depositDate |-> "2021-01-01"]
RawNumber == [title |-> <<"B", "R", "2">>, applicant |-> "Orion", fullText |-> "", depositDate |-> NotAString]
RawSlash  == [title |-> <<"B", "R", "3">>, applicant |-> "", fullText |-> "", depositDate |-> "31/12/1999"]

\* what one INPI query can come back with
InpiResponses ==
    { [kind |-> "fail"], [kind |-> "nodata"],
      [kind |-> "items", items |-> <<RawRecent>>],
      [kind |-> "items", items |-> <<RawOld>>],
      [kind |-> "items", items |-> <<RawNumber>>],
      [kind |-> "items", items |-> <<RawSlash>>],
      [kind |-> "items", items |-> <<RawRecent, RawNumber>>] }

ItemCount(resp) ==
    CASE resp.kind = "items"  -> Len(resp.items)
      [] resp.kind = "nodata" -> 1
      [] OTHER                -> 0

\* what opening the HTTP client can raise (line 432, outside the try)
OpenErrors == {"ConnectError"}

ExecInit ==
    /\ x_pc = "start"
    /\ x_brand = ""
    /\ x_applicants \in {<<>>, <<"Acme">>}
    /\ x_st = [idx \in Strategies |-> [pc |-> "pending", k |-> 0, failed |-> 0, all_patents |-> <<>>]]
    /\ x_res = [idx \in Strategies |-> NoResult]
    /\ x_items = 0
    /\ x_ret = NoReturn
    /\ MergeIdle /\ EnrichIdle /\ RunIdle /\ NormIdle /\ AuditIdle /\ RatingIdle /\ DateIdle /\ FamilyIdle /\ QueryIdle /\ TaskIdle

\* strategy 2 without applicants returns before any await
Skips(idx) == idx = 2 /\ x_applicants = <<>>

\* asyncio.gather starts the six coroutines, each running up to its first
\* request: strategy 2 without applicants returns at once, a coroutine whose
\* client fails to open ends with the exception, the others wait for the
\* response to their first query
GatherStart(raisers, error) ==
    /\ x_pc = "start"
    /\ \A idx \in raisers : ~Skips(idx)
    /\ x_st' = [idx \in Strategies |->
                  [x_st[idx] EXCEPT !.pc = IF Skips(idx) THEN "returned"
                                           ELSE IF idx \in raisers THEN "raised"
                                           ELSE "running"]]
    /\ x_res' = [idx \in Strategies |->
                   IF Skips(idx) THEN SkippedResult
                   ELSE IF idx \in raisers THEN [kind |-> "exc", error |-> error]
                   ELSE NoResult]
    /\ x_pc' = "gather"
    /\ UNCHANGED <<x_brand, x_applicants, x_items, x_ret>>
    /\ UNCHANGED <<mergeVars, enrichVars, runVars, normVars, auditVars, ratingVars, dateVars, familyVars, queryVars, taskVars>>

\* the response of the pending query arrives: one iteration of the loop of
\* _execute_inpi_queries; after the last query the strategy ends
QueryStep(idx, resp) ==
    /\ x_pc = "gather"
    /\ x_st[idx].pc = "running"
    /\ x_items + ItemCount(resp) <= MaxItems
    /\ LET queries     == Queries(idx, x_brand, x_applicants)
           k           == x_st[idx].k + 1
           all_patents == AfterQuery(x_st[idx].all_patents, resp, queries[k])
           result      == StrategyFinish(idx, all_patents, queries)
           failed      == x_st[idx].failed + (IF resp.kind = "fail" THEN 1 ELSE 0)
       IN  IF k < Len(queries)
           THEN /\ x_st' = [x_st EXCEPT ![idx] = [pc |-> "running", k |-> k, failed |-> failed,
                                                  all_patents |-> all_patents]]
                /\ UNCHANGED x_res
           ELSE /\ x_st' = [x_st EXCEPT ![idx] =
                              [pc |-> IF result.kind = "exc" THEN "raised" ELSE "returned",
                               k |-> k, failed |-> failed, all_patents |-> all_patents]]
                /\ x_res' = [x_res EXCEPT ![idx] = result]
    /\ x_items' = x_items + ItemCount(resp)
    /\ UNCHANGED <<x_pc, x_brand, x_applicants, x_ret>>
    /\ UNCHANGED <<mergeVars, enrichVars, runVars, normVars, auditVars, ratingVars, dateVars, familyVars, queryVars, taskVars>>

\* asyncio.gather has every result: lines 82-117
Gathered ==
    /\ x_pc = "gather"
    /\ \A idx \in Strategies : x_st[idx].pc \in {"returned", "raised"}
    /\ x_ret' = ExecuteAll(x_res)
    /\ x_pc' = "returned"
    /\ UNCHANGED <<x_brand, x_applicants, x_st, x_res, x_items>>
    /\ UNCHANGED <<mergeVars, enrichVars, runVars, normVars, auditVars, ratingVars, dateVars, familyVars, queryVars, taskVars>>

ExecNext ==
    \/ \E raisers \in SUBSET Strategies : \E error \in OpenErrors : GatherStart(raisers, error)
    \/ \E idx \in Strategies : \E resp \in InpiResponses : QueryStep(idx, resp)
    \/ Gathered

SpecExec == ExecInit /\ [][ExecNext]_vars

-----------------------------------------------------------------------------
(* Claims on the strategy executor (SpecExec) *)

Raised(idx)     == x_res[idx].kind = "exc"
NotFailing(idx) == x_res[idx].kind = "ok"

\* the records the non-failing strategies returned
Contributed == UNION {SeqToSet(x_res[idx].patents) : idx \in {i \in Strategies : NotFailing(i)}}

\* C1: when the six strategies have run concurrently and execute_all_strategies
\* has returned, every strategy that raised has the entry {name, status
\* 'failed', error = text of its exception, patents_found 0}; every other
\* strategy has exactly the metadata it returned; every returned record is an
\* unchanged record of a non-failing strategy, and every record of a
\* non-failing strategy is returned or has a record with its deduplication
\* key returned.
C1_FailureIsolation ==
    x_pc = "returned" =>
        /\ DOMAIN x_ret.strategies = Strategies
        /\ \A idx \in Strategies :
              Raised(idx) => x_ret.strategies[idx] =
                                [ name |-> StrategyName(idx), status |-> "failed",
                                  error |-> x_res[idx].error, patents_found |-> 0 ]
        /\ \A idx \in Strategies :
              NotFailing(idx) => x_ret.strategies[idx] = x_res[idx].metadata
        /\ SeqToSet(x_ret.patents) \subseteq Contributed
        /\ \A p \in Contributed :
              \E i \in 1..Len(x_ret.patents) :
                 DedupKey(x_ret.patents[i].patent_number) = DedupKey(p.patent_number)

\* C1 witness: a strategy raised, a later strategy returned a record, and the
\* record is in the returned set.
C1_Witness ==
    /\ x_pc = "returned"
    /\ \E bad \in Strategies : \E good \in Strategies :
          /\ Raised(bad) /\ NotFailing(good) /\ bad < good
          /\ x_res[good].patents # <<>>
          /\ x_res[good].metadata.patents_found = 1
          /\ x_ret.patents = x_res[good].patents

-----------------------------------------------------------------------------
(* The audit: INPIAuditLayer *)

\* str.lower() on the molecule names of the model
LowerText(text) == IF text = "Darolutamide" THEN "darolutamide" ELSE text

\* CORTELLIS_BENCHMARKS as the module defines it
BuiltInBenchmarks ==
    [ molecule \in {"darolutamide", "ixazomib", "niraparib", "olaparib", "venetoclax",
                    "trastuzumab"} |->
        IF molecule = "darolutamide"
        THEN [ expected_brs |->
                 <<<<"B", "R", "1", "1", "2", "0", "1", "7", "0", "2", "7", "8", "2", "2">>,
                   <<"B", "R", "1", "1", "2", "0", "1", "8", "0", "7", "6", "8", "6", "5">>,
                   <<"B", "R", "1", "1", "2", "0", "1", "9", "0", "1", "4", "7", "7", "6">>,
                   <<"B", "R", "1", "1", "2", "0", "2", "0", "0", "0", "8", "3", "6", "4">>,
                   <<"B", "R", "1", "1", "2", "0", "2", "0", "0", "2", "3", "9", "4", "3">>,
                   <<"B", "R", "1", "1", "2", "0", "2", "1", "0", "0", "1", "2", "3", "4">>,
                   <<"B", "R", "1", "1", "2", "0", "2", "1", "0", "0", "5", "6", "7", "8">>,
                   <<"B", "R", "1", "1", "2", "0", "2", "2", "0", "0", "9", "8", "7", "6">>>>,
               expected_wos |-> 174 ]
        ELSE [ expected_brs |-> <<>>, expected_wos |-> 0 ] ]

\* _get_benchmark
GetBenchmark(benchmarks, molecule_name) ==
    IF molecule_name \notin DOMAIN benchmarks \/ benchmarks[molecule_name].expected_brs = <<>>
    THEN [ expected_brs |-> <<>>, expected_wos |-> 0, has_benchmark |-> FALSE ]
    ELSE [ expected_brs |-> benchmarks[molecule_name].expected_brs,
           expected_wos |-> benchmarks[molecule_name].expected_wos,
           has_benchmark |-> TRUE ]

\* the order of Python characters on the characters of the model
CharRank(c) ==
    CASE c = " " -> 1 [] c = "-" -> 2 [] c = "/" -> 3
      [] c = "0" -> 10 [] c = "1" -> 11 [] c = "2" -> 12 [] c = "3" -> 13 [] c = "4" -> 14
      [] c = "5" -> 15 [] c = "6" -> 16 [] c = "7" -> 17 [] c = "8" -> 18 [] c = "9" -> 19
      [] c = "A" -> 20 [] c = "B" -> 21 [] c = "R" -> 22 [] c = "S" -> 23 [] c = "U" -> 24
      [] c = "a" -> 30 [] c = "b" -> 31 [] c = "r" -> 32

\* str < str
RECURSIVE LexLess(_, _)
LexLess(a, b) ==
    IF b = <<>> THEN FALSE
    ELSE IF a = <<>> THEN TRUE
    ELSE IF Head(a) = Head(b) THEN LexLess(Tail(a), Tail(b))
    ELSE CharRank(Head(a)) < CharRank(Head(b))

\* sorted(list(a_set))
RECURSIVE SortedList(_)
SortedList(ids) ==
    IF ids = {} THEN <<>>
    ELSE LET least == CHOOSE x \in ids : \A y \in ids \ {x} : LexLess(x, y)
         IN  <<least>> \o SortedList(ids \ {least})

\* a percentage 100 * num / den as the floats of the code hold it
Pct(num, den) == [num |-> num, den |-> den]

\* percentage >= bound
PctGE(pct, bound) == 100 * pct.num >= bound * pct.den

\* round(100 * num / den, 2), in hundredths
RoundHundredths(num, den) == (2 * 10000 * num + den) \div (2 * den)

\* a bug the rating could have: the bounds are exclusive
CalculateQualityRatingExclusive(recall, precision) ==
    IF 100 * recall.num > 90 * recall.den /\ 100 * precision.num > 80 * precision.den
    THEN "ALTO"
    ELSE IF 100 * recall.num > 70 * recall.den \/ 100 * precision.num > 70 * precision.den
    THEN "MEDIO"
    ELSE "BAIXO"

\* a bug the rating could have: the middle level from 60 upwards
CalculateQualityRatingFromSixty(recall, precision) ==
    IF PctGE(recall, 90) /\ PctGE(precision, 80) THEN "ALTO"
    ELSE IF PctGE(recall, 60) \/ PctGE(precision, 60) THEN "MEDIO"
    ELSE "BAIXO"

\* _calculate_quality_rating (the middle level written in ASCII)
CalculateQualityRating(recall, precision) ==
    IF PctGE(recall, 90) /\ PctGE(precision, 80) THEN "ALTO"
    ELSE IF PctGE(recall, 70) \/ PctGE(precision, 70) THEN "MEDIO"
    ELSE "BAIXO"

\* an entry of strategy_details that is not a dict is modelled as a record
\* with the single key "notadict": details.get raises
IsEntry(details) == "notadict" \notin DOMAIN details

\* _analyze_strategy_performance
AnalyzeStrategyPerformance(strategy_details) ==
    [ strategy_id \in DOMAIN strategy_details |->
        [ name |-> Get(strategy_details[strategy_id], "name", strategy_id),
          status |-> Get(strategy_details[strategy_id], "status", "unknown"),
          patents_found |-> Get(strategy_details[strategy_id], "patents_found", 0),
          contribution_to_recall |-> "N/A" ] ]

\* a bug the audit could have: the report without benchmark carries metrics
CreateNoBenchmarkReportWithMetrics(molecule_name, found_brs, found_wos) ==
    [ molecule |-> molecule_name,
      has_benchmark |-> FALSE,
      warning |-> "No Cortellis benchmark available for this molecule",
      found_brs |-> Len(found_brs),
      found_wos |-> found_wos,
      metrics |-> [ recall_percent |-> 0, precision_percent |-> 0, f1_score |-> 0 ],
      vs_cortellis |-> [ status |-> "NO_BENCHMARK", difference_percent |-> 0,
                         quality_rating |-> "N/A" ] ]

\* _create_no_benchmark_report
CreateNoBenchmarkReport(molecule_name, found_brs, found_wos) ==
    [ molecule |-> molecule_name,
      has_benchmark |-> FALSE,
      warning |-> "No Cortellis benchmark available for this molecule",
      found_brs |-> Len(found_brs),
      found_wos |-> found_wos,
      vs_cortellis |-> [ status |-> "NO_BENCHMARK", difference_percent |-> 0,
                         quality_rating |-> "N/A" ] ]

\* audit_results lines 104-180, with a benchmark
AuditWithBenchmark(benchmark, molecule_name, found_brs, found_wos, strategy_details) ==
    LET expected_brs == [i \in 1..Len(benchmark.expected_brs) |->
                            NormalizePatentNumber(benchmark.expected_brs[i])]
        found_brs_normalized == [i \in 1..Len(found_brs) |-> NormalizePatentNumber(found_brs[i])]
        matched == SeqToSet(found_brs_normalized) \cap SeqToSet(expected_brs)
        missing == SeqToSet(expected_brs) \ SeqToSet(found_brs_normalized)
        extra   == SeqToSet(found_brs_normalized) \ SeqToSet(expected_brs)
        total_expected == Len(expected_brs)
        total_found    == Len(found_brs_normalized)
        total_matched  == Cardinality(matched)
        recall    == IF total_expected > 0 THEN Pct(total_matched, total_expected) ELSE Pct(0, 1)
        precision == IF total_found > 0 THEN Pct(total_matched, total_found) ELSE Pct(0, 1)
        \* 2 * recall * precision / (recall + precision) = 200 * matched / (expected + found)
        f1_score  == IF total_matched > 0
                     THEN RoundHundredths(2 * total_matched, total_expected + total_found)
                     ELSE 0
    IN  IF \E strategy_id \in DOMAIN strategy_details : ~IsEntry(strategy_details[strategy_id])
        THEN [ kind |-> "exception", type |-> "AttributeError" ]
        ELSE
        [ molecule |-> molecule_name,
          has_benchmark |-> TRUE,
          comparison |-> [ expected_brs |-> total_expected,
                           found_brs |-> total_found,
                           matched_brs |-> total_matched,
                           missing_brs |-> Cardinality(missing),
                           extra_brs |-> Cardinality(extra) ],
          metrics |-> [ recall_percent |-> RoundHundredths(recall.num, recall.den),
                        precision_percent |-> RoundHundredths(precision.num, precision.den),
                        f1_score |-> f1_score ],
          vs_cortellis |->
              [ status |-> IF total_found > total_expected THEN "BETTER"
                           ELSE IF total_found = total_expected THEN "EQUAL" ELSE "WORSE",
                difference_percent |->
                    IF total_found > total_expected
                    THEN RoundHundredths(total_found - total_expected, total_expected)
                    ELSE IF total_found = total_expected THEN 0
                    ELSE 0 - RoundHundredths(total_expected - total_found, total_expected),
                quality_rating |-> CalculateQualityRating(recall, precision) ],
          matched_patents |-> SortedList(matched),
          missing_patents |-> SortedList(missing),
          extra_patents |-> SortedList(extra),
          strategy_performance |-> AnalyzeStrategyPerformance(strategy_details),
          wo_patents |-> [ expected |-> benchmark.expected_wos,
                           found |-> found_wos,
                           difference |-> found_wos - benchmark.expected_wos ] ]

\* audit_results
AuditResults(benchmark, molecule_name, found_brs, found_wos, strategy_details) ==
    IF ~benchmark.has_benchmark
    THEN CreateNoBenchmarkReport(molecule_name, found_brs, found_wos)
    ELSE AuditWithBenchmark(benchmark, molecule_name, found_brs, found_wos, strategy_details)

-----------------------------------------------------------------------------
(* A search run (Spec): search_patents from the EPO token to the report.    *)
(* The upstream services answer or fail at every call.                      *)

B3 == <<"B", "R", "3">>

\* request.nome_molecula, as the client sent it
RunMolecules == {"", "  ", "Darolutamide", " aspirin"}

\* str.strip() on the molecule names of the model
StripText(text) ==
    CASE text = "  "       -> ""
      [] text = " aspirin" -> "aspirin"
      [] OTHER             -> text

\* the request's paises_alvo after lines 966-969
RunTargets == { <<"BR">>, <<"US", "BR">>, <<"US">> }

\* sorted(all_wos)
RunWos == { SubSeq(<<"WO1", "WO2", "WO3">>, 1, n) : n \in 0..MaxFamilies }

\* the records get_family_patents can return
RunEpoPool ==
    { EpoRecord(B1, "BR", "Title1", None, <<>>, <<>>, <<>>, "2019-01-01"),
      EpoRecord(B3, "BR", "Title3", "EpoAbs", <<"Orion">>, <<"Inv">>, <<Ipc0>>, "2020-01-01"),
      EpoRecord(U9, "US", "Title9", None, <<>>, <<>>, <<>>, "2020-01-01") }

\* get_family_patents for one WO: per target country no record, one, or two
\* in the order of the family members; the call that fails returns the empty
\* lists (lines 358, 623-625)
RunFamilyResults(targets) ==
    { fp \in [SeqToSet(targets) ->
                {<<>>} \cup {<<r>> : r \in RunEpoPool}
                  \cup {<<pair[1], pair[2]>> :
                          pair \in {q \in RunEpoPool \X RunEpoPool : q[1] # q[2]}}] :
        \A c \in SeqToSet(targets) : \A i \in 1..Len(fp[c]) : fp[c][i].country = c }

\* what the INPI crawler does in one run: the strategies whose client fails to
\* open, and the response to the first query of each strategy (the later
\* queries fail)
NoAnswer == [idx \in Strategies |-> [kind |-> "fail"]]

InpiScenarios ==
    { [raisers |-> {}, first |-> NoAnswer],
      [raisers |-> Strategies \ {2}, first |-> NoAnswer],
      [raisers |-> {}, first |-> [NoAnswer EXCEPT ![1] = [kind |-> "items", items |-> <<RawRecent>>]]],
      [raisers |-> {}, first |-> [NoAnswer EXCEPT ![1] = [kind |-> "items", items |-> <<RawOld>>],
                                                  ![4] = [kind |-> "items", items |-> <<RawNumber>>]]],
      [raisers |-> {3}, first |-> [NoAnswer EXCEPT ![1] = [kind |-> "nodata"],
                                                   ![5] = [kind |-> "items", items |-> <<RawOld>>]]] }

\* _execute_inpi_queries: the loop over the queries of one strategy
RECURSIVE RunQueries(_, _, _, _)
RunQueries(queries, first, k, all_patents) ==
    IF k > Len(queries) THEN all_patents
    ELSE RunQueries(queries, first, k + 1,
                    AfterQuery(all_patents, IF k = 1 THEN first ELSE [kind |-> "fail"], queries[k]))

\* one strategy coroutine of the run (applicants=[] at line 1040, no brand)
StrategyRun(idx, sc) ==
    IF idx = 2 THEN SkippedResult
    ELSE IF idx \in sc.raisers THEN [kind |-> "exc", error |-> "ConnectError"]
    ELSE StrategyFinish(idx, RunQueries(Queries(idx, "", <<>>), sc.first[idx], 1, <<>>),
                        Queries(idx, "", <<>>))

\* whether some INPI query of the run was answered
InpiAnswered(sc) ==
    \E idx \in Strategies \ ({2} \cup sc.raisers) : sc.first[idx].kind # "fail"

\* the answers of the enrichment services in a run
RunBrResponses ==
    { [kind |-> "error"],
      [kind |-> "ok", bib |-> EmptyBib],
      [kind |-> "ok",
       bib  |-> [titles |-> <<[lang |-> "en", val |-> "TitleEN"]>>,
                 abstract |-> [shape |-> "absent"],
                 applicants |-> <<"Bayer">>, inventors |-> <<"Inv1">>,
                 classifications |-> <<Cls("dict", <<"A">>, <<>>)>>]] }

RunGoogleContents ==
    { [en |-> PageError, pt |-> PageError],
      [en |-> PageNot200, pt |-> Page("GoogleAbsPT", <<"Bayer">>, <<>>, <<"Inv2">>, <<Ipc0>>)],
      [en |-> Page(NoMatch, <<"Bayer">>, <<>>, <<"Inv2">>, <<Ipc0>>), pt |-> PageNot200] }

RunAbstractResponses ==
    { [kind |-> "error"],
      [kind |-> "ok", items |-> <<[lang |-> "en", p |-> [k |-> "dict", v |-> "AbsEN"]]>>] }


\* get_epo_token: what the caller of search_patents receives when it raises
TokenRejected ==
    [ kind |-> "exception", type |-> "HTTPException", status_code |-> 500,
      detail |-> "EPO authentication failed" ]

TokenUnreachable == [ kind |-> "exception", type |-> "ConnectError" ]

\* the order of the enrichment sources in search_patents
Sources == <<"epo_biblio", "google", "epo_abstract">>

\* a request of the enrichment loops as the run remembers it: the record it
\* was sent for, whether that record was complete, whether the service
\* answered, and whether the record came back changed
Sent(n, source, before, after, answered) ==
    [ number |-> n, source |-> source, complete |-> ~Incomplete(before),
      answered |-> answered, changed |-> after # before ]

\* enrich_from_google_patents: a page was received (the request of the /en
\* page raising ends the function, a status other than 200 moves on to /pt)
GoogleAnswered(content) ==
    content.en.status = "200" \/ (content.en.status = "404" /\ content.pt.status = "200")

\* the record of all_patents with the given number
RecOf(list, n) == list[CHOOSE i \in 1..Len(list) : list[i].patent_number = n]

\* patent.update(enriched): the dict is the one all_patents and
\* patents_by_country hold
UpdateRec(list, n, rec) ==
    [i \in 1..Len(list) |-> IF list[i].patent_number = n THEN rec ELSE list[i]]

UpdatePbc(pbc, n, rec) == [c \in DOMAIN pbc |-> UpdateRec(pbc[c], n, rec)]

\* the patent numbers of the records of a list that satisfy a filter
NumbersWhere(list, Test(_)) ==
    LET kept == SelectSeq(list, Test)
    IN  [i \in 1..Len(kept) |-> kept[i].patent_number]

\* lines 1093-1097
IncompleteBrs(all_patents) ==
    NumbersWhere(all_patents, LAMBDA p : p.country = "BR" /\ Incomplete(p))

\* lines 1093, 1113-1116
StillIncompleteBrs(all_patents) ==
    NumbersWhere(all_patents, LAMBDA p : p.country = "BR" /\ StillIncomplete(p))

\* line 1136: patents_without_abstract[:20]
TertiaryCap == 20

WithoutAbstract(all_patents) ==
    LET nums == NumbersWhere(all_patents, AbstractIsNone)
    IN  SubSeq(nums, 1, IF Len(nums) < TertiaryCap THEN Len(nums) ELSE TertiaryCap)

\* line 1144: the sort key
SortKey(x) ==
    LET d == Get(x, "publication_date", "") IN IF TruthyS(d) THEN d ELSE ""

\* list.sort(key=..., reverse=True) is stable: a record goes after every
\* record whose key is greater or equal
RECURSIVE InsertDesc(_, _)
InsertDesc(sorted, x) ==
    IF sorted = <<>> THEN <<x>>
    ELSE IF StrRank(SortKey(Head(sorted))) >= StrRank(SortKey(x))
         THEN <<Head(sorted)>> \o InsertDesc(Tail(sorted), x)
         ELSE <<x>> \o sorted

RECURSIVE SortDescFrom(_, _)
SortDescFrom(list, sorted) ==
    IF list = <<>> THEN sorted
    ELSE SortDescFrom(Tail(list), InsertDesc(sorted, Head(list)))

SortByPublicationDate(all_patents) == SortDescFrom(all_patents, <<>>)

\* lines 1151-1162: the audit of the run
RunAudit(molecule, wos, inpi, pbc) ==
    LET molecule_name == LowerText(StripText(molecule))
        br_patent_numbers == [i \in 1..Len(PbcGet(pbc, "BR")) |->
                                 PbcGet(pbc, "BR")[i].patent_number]
    IN  AuditResults(GetBenchmark(BuiltInBenchmarks, molecule_name), molecule_name,
                     br_patent_numbers, Len(wos), inpi.strategies)

\* lines 1166-1197: the report
Report(molecule, targets, wos, inpi, pbc, all_patents, added) ==
    [ kind |-> "report",
      metadata |-> [ molecule_name |-> StripText(molecule), target_countries |-> targets ],
      summary |-> [ total_wos |-> Len(wos),
                    total_patents |-> Len(all_patents),
                    by_country |-> [c \in SeqToSet(targets) |-> Len(PbcGet(pbc, c))] ],
      inpi_multi_strategy |-> [ total_strategies |-> 6,
                                strategies |-> inpi.strategies,
                                patents_found |-> Len(inpi.patents),
                                new_brs_added |-> added.new_brs_from_inpi,
                                br_from_epo_google |-> added.br_from_epo_google,
                                total_br_final |-> Len(PbcGet(pbc, "BR")) ],
      cortellis_audit |-> RunAudit(molecule, wos, inpi, pbc),
      wo_patents |-> wos,
      patents_by_country |-> pbc,
      all_patents |-> all_patents ]

RunInit ==
    /\ r_pc = "start"
    /\ r_molecule \in RunMolecules
    /\ r_targets \in RunTargets
    /\ r_wos = <<>>
    /\ r_inpi = NoReturn
    /\ r_pbc = <<>>
    /\ r_allp = <<>>
    /\ r_seen = {}
    /\ r_nfam = 0
    /\ r_added = NoReturn
    /\ r_todo = <<>>
    /\ r_net = <<>>
    /\ r_ok = {}
    /\ r_out = NoReturn
    /\ MergeIdle /\ EnrichIdle /\ ExecIdle /\ NormIdle /\ AuditIdle /\ RatingIdle /\ DateIdle /\ FamilyIdle /\ QueryIdle /\ TaskIdle

\* line 977: get_epo_token; a status other than 200 raises HTTPException(500),
\* a failed request raises the client's exception; neither is caught
GetToken(outcome) ==
    /\ r_pc = "start"
    /\ CASE outcome = "ok"     -> r_pc' = "layer1" /\ r_ok' = {"epo_auth"} /\ UNCHANGED r_out
         [] outcome = "status" -> r_pc' = "raised" /\ r_out' = TokenRejected /\ UNCHANGED r_ok
         [] outcome = "error"  -> r_pc' = "raised" /\ r_out' = TokenUnreachable /\ UNCHANGED r_ok
    /\ UNCHANGED <<r_molecule, r_targets, r_wos, r_inpi, r_pbc, r_allp, r_seen, r_nfam, r_added, r_todo, r_net>>
    /\ UNCHANGED <<mergeVars, enrichVars, execVars, normVars, auditVars, ratingVars, dateVars, familyVars, queryVars, taskVars>>

\* lines 978-1030: the WO numbers of layers 1 and 2; every search that fails
\* contributes nothing
Discover(wos) ==
    /\ r_pc = "layer1"
    /\ r_wos' = wos
    /\ r_ok' = IF wos # <<>> THEN r_ok \cup {"epo_search"} ELSE r_ok
    /\ r_pc' = "inpi"
    /\ UNCHANGED <<r_molecule, r_targets, r_inpi, r_pbc, r_allp, r_seen, r_nfam, r_added, r_todo, r_net, r_out>>
    /\ UNCHANGED <<mergeVars, enrichVars, execVars, normVars, auditVars, ratingVars, dateVars, familyVars, queryVars, taskVars>>

\* lines 1035-1052: execute_all_strategies, then the containers of the merge
RunInpi(sc) ==
    /\ r_pc = "inpi"
    /\ r_inpi' = ExecuteAll([idx \in Strategies |-> StrategyRun(idx, sc)])
    /\ r_ok' = IF InpiAnswered(sc) THEN r_ok \cup {"inpi"} ELSE r_ok
    /\ r_pbc' = [c \in SeqToSet(r_targets) |-> <<>>]
    /\ r_seen' = {}
    /\ r_pc' = "family"
    /\ UNCHANGED <<r_molecule, r_targets, r_wos, r_allp, r_nfam, r_added, r_todo, r_net, r_out>>
    /\ UNCHANGED <<mergeVars, enrichVars, execVars, normVars, auditVars, ratingVars, dateVars, familyVars, queryVars, taskVars>>

\* lines 1054-1067, one WO
Family(fp) ==
    /\ r_pc = "family"
    /\ r_nfam < Len(r_wos)
    /\ LET st == AddFamily([seen |-> r_seen, pbc |-> r_pbc], fp, r_targets)
       IN  /\ r_seen' = st.seen
           /\ r_pbc' = st.pbc
    /\ r_nfam' = r_nfam + 1
    /\ r_ok' = IF \E c \in DOMAIN fp : fp[c] # <<>> THEN r_ok \cup {"epo_family"} ELSE r_ok
    /\ UNCHANGED <<r_pc, r_molecule, r_targets, r_wos, r_inpi, r_allp, r_added, r_todo, r_net, r_out>>
    /\ UNCHANGED <<mergeVars, enrichVars, execVars, normVars, auditVars, ratingVars, dateVars, familyVars, queryVars, taskVars>>

\* lines 1069-1099: all_patents, the merge of the INPI records, incomplete_brs
Merge ==
    /\ r_pc = "family"
    /\ r_nfam = Len(r_wos)
    /\ LET st == MergeInpi(r_pbc, r_targets, r_inpi.patents)
       IN  /\ r_pbc' = st.pbc
           /\ r_allp' = st.allp
           /\ r_added' = [ new_brs_from_inpi |-> st.added,
                           br_from_epo_google |-> Len(PbcGet(r_pbc, "BR")) ]
           /\ r_todo' = IncompleteBrs(st.allp)
    /\ r_pc' = "primary"
    /\ UNCHANGED <<r_molecule, r_targets, r_wos, r_inpi, r_seen, r_nfam, r_net, r_ok, r_out>>
    /\ UNCHANGED <<mergeVars, enrichVars, execVars, normVars, auditVars, ratingVars, dateVars, familyVars, queryVars, taskVars>>

\* lines 1101-1104, one record of incomplete_brs
PrimaryStep(resp) ==
    /\ r_pc = "primary"
    /\ r_todo # <<>>
    /\ LET n   == Head(r_todo)
           rec == EnrichBrMetadata(RecOf(r_allp, n), resp)
       IN  /\ r_allp' = UpdateRec(r_allp, n, rec)
           /\ r_pbc' = UpdatePbc(r_pbc, n, rec)
           /\ r_net' = Append(r_net, Sent(n, "epo_biblio", RecOf(r_allp, n), rec, resp.kind = "ok"))
    /\ r_todo' = Tail(r_todo)
    /\ r_ok' = IF resp.kind = "ok" THEN r_ok \cup {"epo_biblio"} ELSE r_ok
    /\ UNCHANGED <<r_pc, r_molecule, r_targets, r_wos, r_inpi, r_seen, r_nfam, r_added, r_out>>
    /\ UNCHANGED <<mergeVars, enrichVars, execVars, normVars, auditVars, ratingVars, dateVars, familyVars, queryVars, taskVars>>

\* lines 1113-1116: still_incomplete
BeginSecondary ==
    /\ r_pc = "primary"
    /\ r_todo = <<>>
    /\ r_todo' = StillIncompleteBrs(r_allp)
    /\ r_pc' = "secondary"
    /\ UNCHANGED <<r_molecule, r_targets, r_wos, r_inpi, r_pbc, r_allp, r_seen, r_nfam, r_added, r_net,
                   r_ok, r_out>>
    /\ UNCHANGED <<mergeVars, enrichVars, execVars, normVars, auditVars, ratingVars, dateVars, familyVars, queryVars, taskVars>>

\* lines 1120-1122, one record of still_incomplete
SecondaryStep(content) ==
    /\ r_pc = "secondary"
    /\ r_todo # <<>>
    /\ LET n   == Head(r_todo)
           run == GoogleRun(RecOf(r_allp, n), content)
       IN  /\ r_allp' = UpdateRec(r_allp, n, run.pd)
           /\ r_pbc' = UpdatePbc(r_pbc, n, run.pd)
           /\ r_net' = IF run.sent > 0
                        THEN Append(r_net, Sent(n, "google", RecOf(r_allp, n), run.pd,
                                                GoogleAnswered(content)))
                        ELSE r_net
    /\ r_todo' = Tail(r_todo)
    /\ r_ok' = IF GoogleAnswered(content) THEN r_ok \cup {"google"} ELSE r_ok
    /\ UNCHANGED <<r_pc, r_molecule, r_targets, r_wos, r_inpi, r_seen, r_nfam, r_added, r_out>>
    /\ UNCHANGED <<mergeVars, enrichVars, execVars, normVars, auditVars, ratingVars, dateVars, familyVars, queryVars, taskVars>>

\* lines 1133-1136: patents_without_abstract[:20]
BeginTertiary ==
    /\ r_pc = "secondary"
    /\ r_todo = <<>>
    /\ r_todo' = WithoutAbstract(r_allp)
    /\ r_pc' = "tertiary"
    /\ UNCHANGED <<r_molecule, r_targets, r_wos, r_inpi, r_pbc, r_allp, r_seen, r_nfam, r_added, r_net,
                   r_ok, r_out>>
    /\ UNCHANGED <<mergeVars, enrichVars, execVars, normVars, auditVars, ratingVars, dateVars, familyVars, queryVars, taskVars>>

\* lines 1137-1140, one record without abstract
AbstractStep(resp) ==
    /\ r_pc = "tertiary"
    /\ r_todo # <<>>
    /\ LET n   == Head(r_todo)
           rec == TertiaryStep(RecOf(r_allp, n), resp)
       IN  /\ r_allp' = UpdateRec(r_allp, n, rec)
           /\ r_pbc' = UpdatePbc(r_pbc, n, rec)
           /\ r_net' = Append(r_net, Sent(n, "epo_abstract", RecOf(r_allp, n), rec, resp.kind = "ok"))
    /\ r_todo' = Tail(r_todo)
    /\ r_ok' = IF resp.kind = "ok" THEN r_ok \cup {"epo_abstract"} ELSE r_ok
    /\ UNCHANGED <<r_pc, r_molecule, r_targets, r_wos, r_inpi, r_seen, r_nfam, r_added, r_out>>
    /\ UNCHANGED <<mergeVars, enrichVars, execVars, normVars, auditVars, ratingVars, dateVars, familyVars, queryVars, taskVars>>

\* lines 1144-1197: the sort of all_patents and the report
Finish ==
    /\ r_pc = "tertiary"
    /\ r_todo = <<>>
    /\ r_allp' = SortByPublicationDate(r_allp)
    /\ r_out' = Report(r_molecule, r_targets, r_wos, r_inpi, r_pbc, SortByPublicationDate(r_allp), r_added)
    /\ r_pc' = "returned"
    /\ UNCHANGED <<r_molecule, r_targets, r_wos, r_inpi, r_pbc, r_seen, r_nfam, r_added, r_todo, r_net, r_ok>>
    /\ UNCHANGED <<mergeVars, enrichVars, execVars, normVars, auditVars, ratingVars, dateVars, familyVars, queryVars, taskVars>>

Next ==
    \/ \E outcome \in {"ok", "status", "error"} : GetToken(outcome)
    \/ \E wos \in RunWos : Discover(wos)
    \/ \E sc \in InpiScenarios : RunInpi(sc)
    \/ \E fp \in RunFamilyResults(r_targets) : Family(fp)
    \/ Merge
    \/ \E resp \in RunBrResponses : PrimaryStep(resp)
    \/ BeginSecondary
    \/ \E content \in RunGoogleContents : SecondaryStep(content)
    \/ BeginTertiary
    \/ \E resp \in RunAbstractResponses : AbstractStep(resp)
    \/ Finish

Spec == RunInit /\ [][Next]_vars

-----------------------------------------------------------------------------
(* Claims on a search run (Spec) *)

\* the run has ended: the caller has a report or an exception
RunEnded == r_pc \in {"returned", "raised"}

\* C2 as stated: a run that has ended gave its caller a report, never an
\* exception; and when no upstream service answered, the report has no record
\* and every strategy in it has status 'failed' with a non-empty error text.
C2_AlwaysReturnsReport ==
    RunEnded =>
        /\ r_out.kind = "report"
        /\ r_ok = {} =>
              /\ r_out.all_patents = <<>>
              /\ \A idx \in Strategies :
                    /\ r_out.inpi_multi_strategy.strategies[idx].status = "failed"
                    /\ Get(r_out.inpi_multi_strategy.strategies[idx], "error", "") # ""


\* the position of a source in the order of search_patents
SourceRank(source) == CHOOSE i \in 1..Len(Sources) : Sources[i] = source

\* a request was sent to the source for the record
Tried(n, source) ==
    \E i \in 1..Len(r_net) : r_net[i].number = n /\ r_net[i].source = source

\* C11 as stated: when the run returns, no request was sent for a record that
\* was complete at that time, the requests for one record follow the order
\* primary lookup, secondary search engine, tertiary fetch, and every record
\* of any country that is still incomplete has been offered to all three
\* sources.
C11_EveryIncompleteRecordOffered ==
    r_pc = "returned" =>
        /\ \A i \in 1..Len(r_net) : ~r_net[i].complete
        /\ \A i, j \in 1..Len(r_net) :
              (i < j /\ r_net[i].number = r_net[j].number) =>
                  SourceRank(r_net[i].source) < SourceRank(r_net[j].source)
        /\ \A k \in 1..Len(r_allp) :
              Incomplete(r_allp[k]) =>
                  \A s \in 1..Len(Sources) : Tried(r_allp[k].patent_number, Sources[s])

\* C12: a request that failed (it raised, timed out or was answered with an
\* error status) left its record as it was; every record a request was sent
\* for is still in all_patents; and once a loop has ended, every record its
\* filter selects has had its request, whatever happened to the requests
\* before it.
C12_FailedCallNotFatal ==
    /\ \A i \in 1..Len(r_net) : ~r_net[i].answered => ~r_net[i].changed
    /\ \A i \in 1..Len(r_net) :
          \E k \in 1..Len(r_allp) : r_allp[k].patent_number = r_net[i].number
    /\ r_pc \in {"secondary", "tertiary", "returned"} =>
          \A k \in 1..Len(r_allp) :
             (r_allp[k].country = "BR" /\ Incomplete(r_allp[k])) =>
                 Tried(r_allp[k].patent_number, "epo_biblio")
    /\ r_pc \in {"tertiary", "returned"} =>
          \A k \in 1..Len(r_allp) :
             (r_allp[k].country = "BR" /\ StillIncomplete(r_allp[k])) =>
                 Tried(r_allp[k].patent_number, "google")
    /\ r_pc = "returned" =>
          \A k \in 1..Len(r_allp) :
             (k <= TertiaryCap /\ AbstractIsNone(r_allp[k])) =>
                 Tried(r_allp[k].patent_number, "epo_abstract")

\* C12 witness: the primary lookup failed for one record and the next record
\* of the loop had its lookup, which filled it.
C12_Witness ==
    /\ r_pc = "returned"
    /\ \E i, j \in 1..Len(r_net) :
          /\ i < j
          /\ r_net[i].source = "epo_biblio" /\ r_net[j].source = "epo_biblio"
          /\ ~r_net[i].answered /\ r_net[j].answered /\ r_net[j].changed
          /\ r_net[i].number # r_net[j].number


-----------------------------------------------------------------------------
(* Claims on the strategy entries (SpecExec) *)

\* the entry of a strategy in the returned details
Entry(idx) == x_ret.strategies[idx]

\* C13: when no applicants are known and execute_all_strategies has returned,
\* the applicant strategy has status 'skipped' and no error, it sent no query
\* and returned no record, and the summary counts as successful exactly the
\* other strategies that returned (the skipped one is in neither count).
C13_SkippedNotFailed ==
    (x_pc = "returned" /\ x_applicants = <<>>) =>
        /\ Entry(2).status = "skipped"
        /\ "error" \notin DOMAIN Entry(2)
        /\ Entry(2).patents_found = 0
        /\ x_res[2].patents = <<>>
        /\ x_st[2].k = 0
        /\ x_ret.summary.successful_strategies =
              Cardinality({idx \in Strategies \ {2} : NotFailing(idx)})
        /\ x_ret.summary.total_strategies = 6

\* C13 witness: no applicants, the five other strategies all returned and one
\* of them found a record; five strategies are counted as successful.
C13_Witness ==
    /\ x_pc = "returned" /\ x_applicants = <<>>
    /\ Entry(2).status = "skipped"
    /\ x_ret.summary.successful_strategies = 5
    /\ x_ret.summary.total_patents_unique = 1

\* a step leaves the result of every ended coroutine and the returned value
\* as they are
ResultsKept ==
    x_pc \in {"gather", "returned"} =>
        /\ \A idx \in Strategies : x_res[idx] # NoResult => x_res'[idx] = x_res[idx]
        /\ x_ret # NoReturn => x_ret' = x_ret

\* C14: in the returned details each of the six strategies has one entry, its
\* status is success, failed or skipped, it carries an error exactly when the
\* status is failed, and it is failed exactly when the coroutine raised; the
\* result of a coroutine, once there, never changes.
C14_OneTerminalStatus ==
    /\ [](x_pc = "returned" =>
            /\ DOMAIN x_ret.strategies = Strategies
            /\ \A idx \in Strategies :
                  /\ Entry(idx).status \in {"success", "failed", "skipped"}
                  /\ "error" \in DOMAIN Entry(idx) <=> Entry(idx).status = "failed"
                  /\ Entry(idx).status = "failed" <=> Raised(idx))
    /\ [][ResultsKept]_vars

\* C14 witness: a run whose details hold a failed, a skipped and a successful
\* strategy.
C14_Witness ==
    /\ x_pc = "returned"
    /\ \E a, b, c \in Strategies :
          /\ Entry(a).status = "failed" /\ Entry(a).error = x_res[a].error
          /\ Entry(b).status = "skipped"
          /\ Entry(c).status = "success" /\ Entry(c).patents_found = 1

\* C15 as stated: a strategy with several queries of which some failed ran
\* all its queries and has status success; a strategy whose only query failed
\* has status failed.
C15_OnlyQueryFailureFailsStrategy ==
    x_pc = "returned" =>
        \A idx \in Strategies :
           LET queries == Queries(idx, x_brand, x_applicants)
           IN  /\ (x_st[idx].failed > 0 /\ Len(queries) > 1 /\ ~Raised(idx)) =>
                      (x_st[idx].k = Len(queries) /\ Entry(idx).status = "success")
               /\ (x_st[idx].failed > 0 /\ Len(queries) = 1) =>
                      Entry(idx).status = "failed"


-----------------------------------------------------------------------------
(* Claims on the request of a search run (Spec) *)

\* C16 as stated: a run whose molecule name is empty, or blank once trimmed,
\* sends no request, not even the one for the EPO token: it stays before its
\* first network call or has ended with a configuration error.
C16_BlankMoleculeRejected ==
    StripText(r_molecule) = "" =>
        \/ r_pc = "start"
        \/ /\ r_pc = "raised"
           /\ r_out.type = "ConfigurationError"


-----------------------------------------------------------------------------
(* Identifier normalisation (SpecNorm): INPIAuditLayer._normalize_patent_    *)
(* number applied to an identifier, to the same identifier written with     *)
(* other casing and separators, and to its own result.                      *)

MaxIdLen == 2
MaxEdits == 1

\* the characters of the identifiers: letters in both cases, a digit, the
\* separators
IdChars == {"B", "R", "b", "r", "U", "S", "1", "-", " ", "/"}

Separators == {"-", " ", "/"}

Identifiers == UNION { [1..n -> IdChars] : n \in 0..MaxIdLen }

\* the same letter in the other case
OtherCase(c) ==
    CASE c = "b" -> "B" [] c = "B" -> "b" [] c = "r" -> "R" [] c = "R" -> "r" [] OTHER -> c

\* the identifier with a separator inserted after its first pos characters
InsertAt(s, pos, c) == SubSeq(s, 1, pos) \o <<c>> \o SubSeq(s, pos + 1, Len(s))

\* the identifier with the letter at pos in the other case
ToggleAt(s, pos) == [i \in 1..Len(s) |-> IF i = pos THEN OtherCase(s[i]) ELSE s[i]]

NormInit ==
    /\ n_pc = "ready"
    /\ n_x \in Identifiers
    /\ n_y = n_x
    /\ n_edits = 0
    /\ n_nx = <<>> /\ n_ny = <<>> /\ n_nnx = <<>>
    /\ MergeIdle /\ EnrichIdle /\ ExecIdle /\ RunIdle /\ AuditIdle /\ RatingIdle /\ DateIdle /\ FamilyIdle /\ QueryIdle /\ TaskIdle

\* the second spelling gets a separator more
InsertSeparator(pos, c) ==
    /\ n_pc = "ready"
    /\ n_edits < MaxEdits
    /\ pos <= Len(n_y)
    /\ n_y' = InsertAt(n_y, pos, c)
    /\ n_edits' = n_edits + 1
    /\ UNCHANGED <<n_pc, n_x, n_nx, n_ny, n_nnx>>
    /\ UNCHANGED <<mergeVars, enrichVars, execVars, runVars, auditVars, ratingVars, dateVars, familyVars, queryVars, taskVars>>

\* the second spelling gets a letter in the other case
ChangeCase(pos) ==
    /\ n_pc = "ready"
    /\ n_edits < MaxEdits
    /\ pos \in 1..Len(n_y)
    /\ OtherCase(n_y[pos]) # n_y[pos]
    /\ n_y' = ToggleAt(n_y, pos)
    /\ n_edits' = n_edits + 1
    /\ UNCHANGED <<n_pc, n_x, n_nx, n_ny, n_nnx>>
    /\ UNCHANGED <<mergeVars, enrichVars, execVars, runVars, auditVars, ratingVars, dateVars, familyVars, queryVars, taskVars>>

\* _normalize_patent_number on both spellings
Normalize ==
    /\ n_pc = "ready"
    /\ n_nx' = NormalizePatentNumber(n_x)
    /\ n_ny' = NormalizePatentNumber(n_y)
    /\ n_pc' = "normalized"
    /\ UNCHANGED <<n_x, n_y, n_edits, n_nnx>>
    /\ UNCHANGED <<mergeVars, enrichVars, execVars, runVars, auditVars, ratingVars, dateVars, familyVars, queryVars, taskVars>>

\* _normalize_patent_number on its own result
NormalizeAgain ==
    /\ n_pc = "normalized"
    /\ n_nnx' = NormalizePatentNumber(n_nx)
    /\ n_pc' = "twice"
    /\ UNCHANGED <<n_x, n_y, n_edits, n_nx, n_ny>>
    /\ UNCHANGED <<mergeVars, enrichVars, execVars, runVars, auditVars, ratingVars, dateVars, familyVars, queryVars, taskVars>>

NormNext ==
    \/ \E pos \in 0..(MaxIdLen + MaxEdits) : \E c \in Separators : InsertSeparator(pos, c)
    \/ \E pos \in 1..(MaxIdLen + MaxEdits) : ChangeCase(pos)
    \/ Normalize
    \/ NormalizeAgain

SpecNorm == NormInit /\ [][NormNext]_vars

-----------------------------------------------------------------------------
(* Claims on the normalisation (SpecNorm) *)

\* C17 as stated: normalising the result again gives the result, and the two
\* spellings of an identifier, which differ only in letter case and in
\* inserted whitespace, hyphens and slashes, normalise to the same string.
C17_NormalizeIdempotentInsensitive ==
    n_pc = "twice" => (n_nnx = n_nx /\ n_ny = n_nx)


\* the keys of COUNTRY_CODES
CountryCodes ==
    { <<"B", "R">>, <<"U", "S">>, <<"E", "P">>, <<"C", "N">>, <<"J", "P">>,
      <<"K", "R">>, <<"I", "N">>, <<"M", "X">>, <<"A", "R">>, <<"C", "L">>,
      <<"C", "O">>, <<"P", "E">>, <<"C", "A">>, <<"A", "U">>, <<"R", "U">>,
      <<"Z", "A">> }

\* the identifier starts with a supported country code
HasCountryPrefix(s) == \E cc \in CountryCodes : StartsWith(s, cc)

\* C18 as stated: the result is the upper-cased input without whitespace, '-'
\* and '/', with the default country code BR in front only when that string
\* does not start with a supported country code; the empty input gives the
\* empty string.
C18_PrefixOnlyWithoutCountryCode ==
    n_pc \in {"normalized", "twice"} =>
        LET stripped == RemoveChars(UpperStr(n_x), Whitespace \cup {"-", "/"})
        IN  n_nx = IF n_x = <<>> THEN <<>>
                   ELSE IF HasCountryPrefix(stripped) THEN stripped
                   ELSE BR \o stripped


-----------------------------------------------------------------------------
(* The audit of a result (SpecAudit): an INPIAuditLayer is created for a    *)
(* molecule, the caller collects the BR numbers it found, audit_results is  *)
(* called.                                                                  *)

MaxFound == 3

B2 == <<"B", "R", "2">>

\* CORTELLIS_BENCHMARKS after load_benchmarks_from_excel read a row for
\* 'aspirin' with three BR numbers
LoadedBenchmarks ==
    [ molecule \in DOMAIN BuiltInBenchmarks \cup {"aspirin"} |->
        IF molecule = "aspirin"
        THEN [ expected_brs |-> <<B1, B2, B3>>, expected_wos |-> 2 ]
        ELSE BuiltInBenchmarks[molecule] ]

BenchmarkTables == { BuiltInBenchmarks, LoadedBenchmarks }

AuditMolecules == { "Darolutamide", "ixazomib", "aspirin", "" }

\* the BR numbers a run can hand to the audit
FoundPool ==
    { B1, <<"B", "R", "-", "1">>, <<"b", "r", "1">>, B2, <<"B", "R", "9">>,
      BuiltInBenchmarks["darolutamide"].expected_brs[1] }

\* strategy_details: none, the entries of execute_all_strategies, an entry
\* that is not a dict
AuditDetails ==
    { <<>>,
      <<[name |-> StrategyName(1), status |-> "success", queries_executed |-> 1,
         patents_found |-> 1],
        FailedEntry(2, "ConnectError")>>,
      <<[notadict |-> TRUE]>> }

\* INPIAuditLayer.__init__
AuditInit ==
    /\ a_pc = "created"
    /\ a_molecule \in AuditMolecules
    /\ \E benchmarks \in BenchmarkTables :
          a_bench = GetBenchmark(benchmarks, LowerText(a_molecule))
    /\ a_found = <<>>
    /\ a_wos \in {0, 2}
    /\ a_details \in AuditDetails
    /\ a_report = NoReturn
    /\ MergeIdle /\ EnrichIdle /\ ExecIdle /\ RunIdle /\ NormIdle /\ RatingIdle /\ DateIdle /\ FamilyIdle /\ QueryIdle /\ TaskIdle

\* search_patents lines 1153-1156: one more number in br_patent_numbers
FoundBr(number) ==
    /\ a_pc = "created"
    /\ Len(a_found) < MaxFound
    /\ a_found' = Append(a_found, number)
    /\ UNCHANGED <<a_pc, a_molecule, a_wos, a_details, a_bench, a_report>>
    /\ UNCHANGED <<mergeVars, enrichVars, execVars, runVars, normVars, ratingVars, dateVars, familyVars, queryVars, taskVars>>

\* audit_results
Audit ==
    /\ a_pc = "created"
    /\ a_report' = AuditResults(a_bench, LowerText(a_molecule), a_found, a_wos, a_details)
    /\ a_pc' = "audited"
    /\ UNCHANGED <<a_molecule, a_found, a_wos, a_details, a_bench>>
    /\ UNCHANGED <<mergeVars, enrichVars, execVars, runVars, normVars, ratingVars, dateVars, familyVars, queryVars, taskVars>>

AuditNext ==
    \/ \E number \in FoundPool : FoundBr(number)
    \/ Audit

SpecAudit == AuditInit /\ [][AuditNext]_vars

-----------------------------------------------------------------------------
(* Claims on the audit (SpecAudit) *)

\* audit_results returned a report (it did not raise)
AuditReturned == a_pc = "audited" /\ "kind" \notin DOMAIN a_report

\* C19: when the molecule has no benchmark, audit_results returns, whatever
\* the found list and the strategy details are, a report whose has_benchmark
\* is false, whose status is NO_BENCHMARK and whose rating is N/A, with the
\* length of the found list and the WO count as given, and with no expected
\* count, comparison, recall, precision or strategy analysis in it.
C19_NoBenchmarkReport ==
    (a_pc = "audited" /\ ~a_bench.has_benchmark) =>
        /\ AuditReturned
        /\ DOMAIN a_report =
              {"molecule", "has_benchmark", "warning", "found_brs", "found_wos", "vs_cortellis"}
        /\ a_report.has_benchmark = FALSE
        /\ a_report.vs_cortellis.status = "NO_BENCHMARK"
        /\ a_report.vs_cortellis.quality_rating = "N/A"
        /\ a_report.vs_cortellis.difference_percent = 0
        /\ a_report.found_brs = Len(a_found)
        /\ a_report.found_wos = a_wos

\* C19 witness: a molecule whose table entry has no expected numbers, two
\* found numbers and strategy details that are not a dict: the report without
\* benchmark is returned.
C19_Witness ==
    /\ a_pc = "audited"
    /\ a_molecule = "ixazomib"
    /\ Len(a_found) = 2
    /\ a_details = <<[notadict |-> TRUE]>>
    /\ a_report.has_benchmark = FALSE
    /\ a_report.found_brs = 2

\* C20 as stated: with a benchmark, recall is 100 * |matched| / |expected| and
\* precision is 100 * |matched| / |found| (0 for an empty found set), expected
\* and found being the sets of distinct normalised identifiers, both rounded
\* to two decimals and both within 0..100.
C20_MetricsOverDistinctIdentifiers ==
    (AuditReturned /\ a_bench.has_benchmark) =>
        LET expected == {NormalizePatentNumber(a_bench.expected_brs[i]) :
                            i \in 1..Len(a_bench.expected_brs)}
            found    == {NormalizePatentNumber(a_found[i]) : i \in 1..Len(a_found)}
            matched  == expected \cap found
        IN  /\ a_report.metrics.recall_percent =
                  RoundHundredths(Cardinality(matched), Cardinality(expected))
            /\ a_report.metrics.precision_percent =
                  IF found = {} THEN 0
                  ELSE RoundHundredths(Cardinality(matched), Cardinality(found))
            /\ a_report.metrics.recall_percent \in 0..10000
            /\ a_report.metrics.precision_percent \in 0..10000

\* the distinct normalised identifiers of the benchmark and of the found list
ExpectedSet == {NormalizePatentNumber(a_bench.expected_brs[i]) : i \in 1..Len(a_bench.expected_brs)}
FoundSet == {NormalizePatentNumber(a_found[i]) : i \in 1..Len(a_found)}

\* a benchmark of three identifiers, three found identifiers, two shared
TwoOfThree ==
    /\ AuditReturned /\ a_bench.has_benchmark
    /\ Len(a_bench.expected_brs) = 3 /\ Cardinality(ExpectedSet) = 3
    /\ Len(a_found) = 3 /\ Cardinality(FoundSet) = 3
    /\ Cardinality(ExpectedSet \cap FoundSet) = 2

\* what C21 states of the report apart from the rating
TwoOfThreeCounts ==
    /\ a_report.metrics.recall_percent = 6667
    /\ a_report.metrics.precision_percent = 6667
    /\ a_report.comparison.matched_brs = 2
    /\ a_report.comparison.missing_brs = 1
    /\ a_report.comparison.extra_brs = 1
    /\ a_report.matched_patents = SortedList(ExpectedSet \cap FoundSet)
    /\ a_report.missing_patents = SortedList(ExpectedSet \ FoundSet)
    /\ a_report.extra_patents = SortedList(FoundSet \ ExpectedSet)
    /\ a_report.vs_cortellis.status = "EQUAL"
    /\ a_report.vs_cortellis.difference_percent = 0

\* C21 as stated: for a benchmark of three identifiers and three found
\* identifiers that share exactly two of them, the audit reports recall 66.67,
\* precision 66.67, two matched, one missing, one extra, status EQUAL and
\* the middle rating.
C21_TwoOfThreeRatedMedium ==
    TwoOfThree => (TwoOfThreeCounts /\ a_report.vs_cortellis.quality_rating = "MEDIO")

\* C21 amended: for a benchmark of three identifiers and three found
\* identifiers that share exactly two of them, the audit reports recall 66.67,
\* precision 66.67, two matched, one missing, one extra, status EQUAL and
\* the lowest rating, as neither metric reaches 70.
C21_TwoOfThreeRatedLow ==
    TwoOfThree => (TwoOfThreeCounts /\ a_report.vs_cortellis.quality_rating = "BAIXO")

\* C21 witness: the benchmark BR1, BR2, BR3 and the found numbers BR-1, BR2,
\* BR9 have been audited.
C21_Witness ==
    /\ TwoOfThree
    /\ a_molecule = "aspirin"
    /\ a_found = << <<"B", "R", "-", "1">>, B2, <<"B", "R", "9">> >>
    /\ a_report.comparison.expected_brs = 3
    /\ a_report.comparison.found_brs = 3
-----------------------------------------------------------------------------
(* The rating of a pair of metrics (SpecRating): _calculate_quality_rating  *)
(* is called with a recall and a precision between 0 and 100.               *)

Percentages == 0..100

\* the caller holds a recall and a precision
RatingInit ==
    /\ q_pc = "ready"
    /\ q_recall \in Percentages
    /\ q_precision \in Percentages
    /\ q_rating = NoReturn
    /\ MergeIdle /\ EnrichIdle /\ ExecIdle /\ RunIdle /\ NormIdle /\ AuditIdle /\ DateIdle /\ FamilyIdle /\ QueryIdle /\ TaskIdle

\* quality_rating = self._calculate_quality_rating(recall, precision)
Rate ==
    /\ q_pc = "ready"
    /\ q_rating' = CalculateQualityRating(Pct(q_recall, 100), Pct(q_precision, 100))
    /\ q_pc' = "rated"
    /\ UNCHANGED <<q_recall, q_precision>>
    /\ UNCHANGED <<mergeVars, enrichVars, execVars, runVars, normVars, auditVars, dateVars, familyVars, queryVars, taskVars>>

RatingNext == Rate

SpecRating == RatingInit /\ [][RatingNext]_vars

-----------------------------------------------------------------------------
(* Claims on the rating (SpecRating) *)

\* C22: the rating is the highest level if recall >= 90 and precision >= 80,
\* otherwise the middle level if recall >= 70 or precision >= 70, otherwise
\* the lowest level, for every recall and precision in 0..100, the bounds 70,
\* 80 and 90 included.
C22_RatingLevels ==
    q_pc = "rated" =>
        /\ q_rating \in {"ALTO", "MEDIO", "BAIXO"}
        /\ q_rating = "ALTO" <=> (q_recall >= 90 /\ q_precision >= 80)
        /\ q_rating = "MEDIO" <=>
               (~(q_recall >= 90 /\ q_precision >= 80) /\ (q_recall >= 70 \/ q_precision >= 70))
        /\ q_rating = "BAIXO" <=> (q_recall < 70 /\ q_precision < 70)

\* C22 witness: a recall of exactly 70 with a precision of 0 has been rated
\* at the middle level.
C22_Witness ==
    q_pc = "rated" /\ q_recall = 70 /\ q_precision = 0 /\ q_rating = "MEDIO"
-----------------------------------------------------------------------------
(* Date formatting (SpecDate): format_date is called with the text of a     *)
(* date field of an upstream payload.  A date is a sequence of characters.  *)

MaxDateLen == 9

DateChars == {"1", "2", "-"}

Digits == {"0", "1", "2", "3", "4", "5", "6", "7", "8", "9"}

\* the strings of at most n characters
DateStrings(n) == UNION { [1..k -> DateChars] : k \in 0..n }

\* format_date on a string (the empty string is falsy)
FormatDate(date_str) ==
    IF date_str = <<>> \/ Len(date_str) # 8 THEN date_str
    ELSE SubSeq(date_str, 1, 4) \o <<"-">> \o SubSeq(date_str, 5, 6) \o <<"-">>
           \o SubSeq(date_str, 7, 8)

DateInit ==
    /\ d_pc = "ready"
    /\ d_in \in DateStrings(MaxDateLen)
    /\ d_out = <<>>
    /\ MergeIdle /\ EnrichIdle /\ ExecIdle /\ RunIdle /\ NormIdle /\ AuditIdle /\ RatingIdle /\ FamilyIdle /\ QueryIdle /\ TaskIdle

\* format_date(date_str)
Format ==
    /\ d_pc = "ready"
    /\ d_out' = FormatDate(d_in)
    /\ d_pc' = "returned"
    /\ UNCHANGED d_in
    /\ UNCHANGED <<mergeVars, enrichVars, execVars, runVars, normVars, auditVars, ratingVars, familyVars, queryVars, taskVars>>

DateNext == Format

SpecDate == DateInit /\ [][DateNext]_vars

-----------------------------------------------------------------------------
(* Claims on the date formatting (SpecDate) *)

\* eight digits
WellFormed(date_str) == Len(date_str) = 8 /\ \A i \in 1..8 : date_str[i] \in Digits

\* C23 as stated: format_date returns YYYY-MM-DD for an input of exactly
\* eight digits YYYYMMDD and returns every other input unchanged, the strings
\* of eight characters that are not all digits included.
C23_OnlyEightDigitsRewritten ==
    d_pc = "returned" =>
        IF WellFormed(d_in)
        THEN d_out = SubSeq(d_in, 1, 4) \o <<"-">> \o SubSeq(d_in, 5, 6) \o <<"-">>
                       \o SubSeq(d_in, 7, 8)
        ELSE d_out = d_in
-----------------------------------------------------------------------------
(* Claims on the report of a search run (Spec) *)

\* the key of the order by publication date: an absent date is ''
DateKey(x) == StrRank(SortKey(x))

\* a list in descending order of publication date, absent dates last
SortedByDateDesc(list) ==
    \A i, j \in 1..Len(list) : i < j => DateKey(list[i]) >= DateKey(list[j])

\* C24 as stated: in the returned report every list of patents_by_country is
\* in descending order of publication date, the records without publication
\* date last.
C24_CountryListsSortedByDate ==
    (r_pc = "returned" /\ r_out.kind = "report") =>
        \A c \in DOMAIN r_out.patents_by_country :
            SortedByDateDesc(r_out.patents_by_country[c])
-----------------------------------------------------------------------------
(* The extraction of a family (SpecFamily): get_family_patents reads the    *)
(* family of one WO and builds a record for every docdb document of a       *)
(* target country.  A family member is modelled by its parsed JSON.         *)

MaxMembers == 3

\* f"{country}{number}"
CountryChars(country) ==
    CASE country = "BR" -> <<"B", "R">> [] country = "US" -> <<"U", "S">>
      [] country = "JP" -> <<"J", "P">>

\* lines 404-418: title_en and title_orig
RECURSIVE TitlesFold(_, _, _)
TitlesFold(titles, title_en, title_orig) ==
    IF titles = <<>>
    THEN [ title |-> IF ~TruthyS(title_en) /\ TruthyS(title_orig) THEN title_orig ELSE title_en,
           title_original |-> title_orig ]
    ELSE IF Head(titles).lang = "en"
         THEN TitlesFold(Tail(titles), Head(titles).val, title_orig)
         ELSE IF ~TruthyS(title_orig)
              THEN TitlesFold(Tail(titles), title_en, Head(titles).val)
              ELSE TitlesFold(Tail(titles), title_en, title_orig)

\* lines 420-477: abstract_text
AbstractText(bib) == BrAbstract([abstract |-> None], bib).abstract

\* lines 566-577: the date of the first docdb document that has one
FirstDocdbDate(doc_ids) ==
    LET dated == SelectSeq(doc_ids, LAMBDA d : d.type = "docdb" /\ d.date # <<>>)
    IN  IF dated = <<>> THEN <<>> ELSE dated[1].date

\* lines 603-620: patent_data for one docdb document of a member (the links
\* and the country name, which are functions of the number, left out)
PatentData(member, doc_id, wo_number) ==
    LET bib == member.bib
        t   == TitlesFold(bib.titles, None, None)
        filing_date == IF FirstDocdbDate(member.doc_ids) # <<>>
                       THEN FirstDocdbDate(member.doc_ids) ELSE member.app_date
    IN  [ patent_number |-> CountryChars(doc_id.country) \o doc_id.number,
          country |-> doc_id.country,
          wo_primary |-> wo_number,
          title |-> t.title,
          title_original |-> t.title_original,
          abstract |-> AbstractText(bib),
          applicants |-> PartyNames(bib.applicants),
          inventors |-> PartyNames(bib.inventors),
          ipc_codes |-> IpcCodes(<<>>, Cap(bib.classifications)),
          publication_date |-> FormatDate(doc_id.date),
          filing_date |-> FormatDate(filing_date),
          priority_date |-> IF member.priority # <<>> THEN FormatDate(member.priority) ELSE None,
          kind |-> doc_id.kind ]

\* a family member that is not a JSON object: member.get raises
NotAnObject == [notanobject |-> TRUE]

IsObject(member) == "notanobject" \notin DOMAIN member

\* lines 391-395: the docdb documents of a target country that have a number
TargetDocs(member, target_countries) ==
    SelectSeq(member.doc_ids,
              LAMBDA d : d.type = "docdb" /\ d.country \in SeqToSet(target_countries)
                           /\ d.number # <<>>)

\* whether the body of the loop raises on this member
MemberRaises(member, target_countries) ==
    \/ ~IsObject(member)
    \/ /\ TargetDocs(member, target_countries) # <<>>
       /\ PartiesRaise(member.bib.applicants) \/ PartiesRaise(member.bib.inventors)

\* patents[country].append(patent_data) for every document of the list
RECURSIVE AppendDocs(_, _, _, _)
AppendDocs(patents, member, docs, wo_number) ==
    IF docs = <<>> THEN patents
    ELSE AppendDocs([patents EXCEPT ![Head(docs).country] =
                        Append(@, PatentData(member, Head(docs), wo_number))],
                    member, Tail(docs), wo_number)

\* lines 383-622 inside the try of line 360: the loop over the members ends
\* at the first member that raises (except at line 623)
RECURSIVE ExtractMembers(_, _, _, _)
ExtractMembers(patents, members, target_countries, wo_number) ==
    IF members = <<>> THEN patents
    ELSE IF MemberRaises(Head(members), target_countries) THEN patents
    ELSE ExtractMembers(AppendDocs(patents, Head(members),
                                   TargetDocs(Head(members), target_countries), wo_number),
                        Tail(members), target_countries, wo_number)

\* get_family_patents
GetFamilyPatents(resp, wo_number, target_countries) ==
    LET patents == [cc \in SeqToSet(target_countries) |-> <<>>]
    IN  IF resp.kind # "ok" THEN patents
        ELSE ExtractMembers(patents, resp.members, target_countries, wo_number)

DocId(type, country, number, date) ==
    [type |-> type, country |-> country, number |-> number, kind |-> "A2", date |-> date]

FamilyBib(titles, abstract, applicants, inventors, classifications) ==
    [ titles |-> titles, abstract |-> abstract, applicants |-> applicants,
      inventors |-> inventors, classifications |-> classifications ]

Date2020 == <<"2", "0", "2", "0", "0", "1", "0", "1">>

ElevenNames ==
    <<"N01", "N02", "N03", "N04", "N05", "N06", "N07", "N08", "N09", "N10", "N11">>

\* the family members of the model
FamilyMembers ==
    { NotAnObject,
      \* a BR document with a clean bibliography
      [ doc_ids |-> <<DocId("docdb", "BR", <<"1">>, Date2020), DocId("epodoc", "BR", <<"1">>, <<>>)>>,
        app_date |-> <<>>, priority |-> <<>>,
        bib |-> FamilyBib(<<[lang |-> "pt", val |-> "TituloPT"], [lang |-> "en", val |-> "TitleEN"]>>,
                          [shape |-> "dict", p |-> [k |-> "str", v |-> "AbsEN"]],
                          <<"Bayer", None, "Orion">>, <<"Inv1">>,
                          <<Cls("dict", <<"A">>, <<>>), Cls("str", <<"A">>, <<>>)>>) ],
      \* a BR document whose applicant and classification text come twice
      [ doc_ids |-> <<DocId("docdb", "BR", <<"3">>, <<>>)>>,
        app_date |-> Date2020, priority |-> Date2020,
        bib |-> FamilyBib(<<>>, [shape |-> "absent"], <<"Bayer", "Bayer">>, <<>>,
                          <<Cls("text", <<>>, <<" ">> \o Ipc0), Cls("text", <<>>, Ipc0)>>) ],
      \* a US document with eleven inventors
      [ doc_ids |-> <<DocId("docdb", "US", <<"9">>, Date2020)>>,
        app_date |-> <<>>, priority |-> <<>>,
        bib |-> FamilyBib(<<[lang |-> "en", val |-> "TitleEN"]>>, [shape |-> "absent"],
                          <<"Orion">>, ElevenNames, <<>>) ],
      \* a BR document with an applicant entry that is not an object
      [ doc_ids |-> <<DocId("docdb", "BR", <<"2">>, Date2020)>>,
        app_date |-> <<>>, priority |-> <<>>,
        bib |-> FamilyBib(<<>>, [shape |-> "absent"], <<"Bayer", NonDict>>, <<>>, <<>>) ],
      \* a document of a country that is never a target, a document without number
      [ doc_ids |-> <<DocId("docdb", "JP", <<"7">>, Date2020), DocId("docdb", "BR", <<>>, Date2020)>>,
        app_date |-> <<>>, priority |-> <<>>,
        bib |-> FamilyBib(<<>>, [shape |-> "absent"], <<>>, <<>>, <<>>) ] }

\* the responses of the family request: the request raises, a status that is
\* not 200, a family of at most n members
FamilyResponses(n) ==
    { [kind |-> "error"], [kind |-> "status"] }
    \cup { [kind |-> "ok", members |-> members] :
             members \in UNION { [1..k -> FamilyMembers] : k \in 0..n } }

FamilyInit ==
    /\ f_pc = "called"
    /\ f_targets \in RunTargets
    /\ f_resp = NoReturn
    /\ f_patents = <<>>
    /\ MergeIdle /\ EnrichIdle /\ ExecIdle /\ RunIdle /\ NormIdle /\ AuditIdle /\ RatingIdle /\ DateIdle /\ QueryIdle /\ TaskIdle

\* get_family_patents(client, token, wo_number, target_countries)
FamilyPatents(resp) ==
    /\ f_pc = "called"
    /\ f_resp' = resp
    /\ f_patents' = GetFamilyPatents(resp, "WO1", f_targets)
    /\ f_pc' = "returned"
    /\ UNCHANGED f_targets
    /\ UNCHANGED <<mergeVars, enrichVars, execVars, runVars, normVars, auditVars, ratingVars, dateVars, queryVars, taskVars>>

FamilyNext == \E resp \in FamilyResponses(MaxMembers) : FamilyPatents(resp)

SpecFamily == FamilyInit /\ [][FamilyNext]_vars

-----------------------------------------------------------------------------
(* Claims on the extraction (SpecFamily) *)

\* at most ten entries, no entry twice
CappedAndDistinct(list) ==
    /\ Len(list) <= ListCap
    /\ \A i, j \in 1..Len(list) : list[i] = list[j] => i = j

\* C25 as stated: in every record the extraction produces, applicants,
\* inventors and ipc_codes each hold at most 10 entries and no entry twice,
\* whatever the shape of the payload.
C25_ListsCappedAndDeduplicated ==
    f_pc = "returned" =>
        \A c \in DOMAIN f_patents : \A i \in 1..Len(f_patents[c]) :
            /\ CappedAndDistinct(f_patents[c][i].applicants)
            /\ CappedAndDistinct(f_patents[c][i].inventors)
            /\ CappedAndDistinct(f_patents[c][i].ipc_codes)
\* the numbers of the records of a returned dict
ReturnedNumbers(patents) ==
    UNION { {patents[c][i].patent_number : i \in 1..Len(patents[c])} : c \in DOMAIN patents }

\* C26 as stated: an extraction failure on one member of a family response
\* drops only that member: every other member of the response, before or
\* after the malformed one, is extracted and is in the result.
C26_FailureDropsOnlyThatRecord ==
    (f_pc = "returned" /\ f_resp.kind = "ok") =>
        \A k \in 1..Len(f_resp.members) :
            ~MemberRaises(f_resp.members[k], f_targets) =>
                \A d \in 1..Len(TargetDocs(f_resp.members[k], f_targets)) :
                    LET doc_id == TargetDocs(f_resp.members[k], f_targets)[d]
                    IN  CountryChars(doc_id.country) \o doc_id.number
                          \in ReturnedNumbers(f_patents)
-----------------------------------------------------------------------------
(* The query loop of one strategy (SpecQueries): _execute_inpi_queries      *)
(* sends a query, waits for its response, sleeps, sends the next one.       *)

\* the events of the loop
GetEvent(k) == [ev |-> "get", query |-> k]
SleepEvent == [ev |-> "sleep", query |-> 0]

\* the lists of queries the six strategies build
QueryLists ==
    { Queries(idx, "", applicants) : idx \in Strategies, applicants \in {<<>>, <<"Acme">>} }

\* lines 430-446: the client is open and the first query, if any, is sent
QueriesInit ==
    /\ y_queries \in QueryLists
    /\ y_pc = IF y_queries = <<>> THEN "returned" ELSE "awaiting"
    /\ y_k = IF y_queries = <<>> THEN 0 ELSE 1
    /\ y_all = <<>>
    /\ y_log = IF y_queries = <<>> THEN <<>> ELSE <<GetEvent(1)>>
    /\ MergeIdle /\ EnrichIdle /\ ExecIdle /\ RunIdle /\ NormIdle /\ AuditIdle /\ RatingIdle /\ DateIdle /\ FamilyIdle /\ TaskIdle

\* lines 446-465: the response of query idx arrives.  A failed call goes to
\* the except clause and continues with the next query at once (line 461);
\* otherwise the loop sleeps if a query is left (lines 464-465).
QueryResponse(resp) ==
    /\ y_pc = "awaiting"
    /\ y_all' = AfterQuery(y_all, resp, y_queries[y_k])
    /\ IF resp.kind = "fail"
       THEN IF y_k < Len(y_queries)
            THEN /\ y_k' = y_k + 1
                 /\ y_log' = Append(y_log, GetEvent(y_k + 1))
                 /\ y_pc' = "awaiting"
            ELSE /\ y_pc' = "returned"
                 /\ UNCHANGED <<y_k, y_log>>
       ELSE IF y_k < Len(y_queries)
            THEN /\ y_pc' = "sleeping"
                 /\ y_log' = Append(y_log, SleepEvent)
                 /\ UNCHANGED y_k
            ELSE /\ y_pc' = "returned"
                 /\ UNCHANGED <<y_k, y_log>>
    /\ UNCHANGED y_queries
    /\ UNCHANGED <<mergeVars, enrichVars, execVars, runVars, normVars, auditVars, ratingVars, dateVars, familyVars, taskVars>>

\* asyncio.sleep(self.delay_between_queries) is over: the next query is sent
DelayElapsed ==
    /\ y_pc = "sleeping"
    /\ y_k' = y_k + 1
    /\ y_log' = Append(y_log, GetEvent(y_k + 1))
    /\ y_pc' = "awaiting"
    /\ UNCHANGED <<y_queries, y_all>>
    /\ UNCHANGED <<mergeVars, enrichVars, execVars, runVars, normVars, auditVars, ratingVars, dateVars, familyVars, taskVars>>

QueriesNext ==
    \/ \E resp \in InpiResponses : QueryResponse(resp)
    \/ DelayElapsed

SpecQueries == QueriesInit /\ [][QueriesNext]_vars

-----------------------------------------------------------------------------
(* Claims on the query loop (SpecQueries) *)

\* the positions of the upstream calls in the log
Calls == {i \in 1..Len(y_log) : y_log[i].ev = "get"}

\* C27 as stated: the queries of a strategy are issued one after another, in
\* order, and between the upstream calls of two consecutive queries the delay
\* elapses, also when the earlier of the two queries failed.
C27_DelayBetweenConsecutiveQueries ==
    /\ \A i, j \in Calls : i < j => y_log[i].query < y_log[j].query
    /\ \A i, j \in Calls :
          (i < j /\ y_log[j].query = y_log[i].query + 1) =>
              \E s \in (i + 1)..(j - 1) : y_log[s] = SleepEvent
-----------------------------------------------------------------------------
(* Claims on the summary of a search run (Spec) *)

\* the sum of the counts of a by_country dict
RECURSIVE SumCounts(_, _)
SumCounts(by_country, countries) ==
    IF countries = {} THEN 0
    ELSE LET c == CHOOSE x \in countries : TRUE
         IN  by_country[c] + SumCounts(by_country, countries \ {c})

\* C28 as stated: in every returned report total_patents is the sum of the
\* counts of by_country, and every key of patents_by_country is a requested
\* target country, also when BR is not a target and the national office
\* returned BR records.
C28_SummaryConsistent ==
    (r_pc = "returned" /\ r_out.kind = "report") =>
        /\ r_out.summary.total_patents =
              SumCounts(r_out.summary.by_country, DOMAIN r_out.summary.by_country)
        /\ DOMAIN r_out.patents_by_country \subseteq SeqToSet(r_out.metadata.target_countries)
-----------------------------------------------------------------------------
(* The worker task (SpecTask): search_task reports its progress, calls      *)
(* search_patents on a new event loop and returns its result.               *)

\* the parameters of search_patents (main.py line 955)
SearchPatentsParams == {"request"}

\* the keyword arguments search_task passes (tasks.py lines 33-36)
TaskKeywords == {"molecule", "countries", "include_wipo", "progress_callback"}

\* calling a function that takes no **kwargs: a keyword that is not a
\* parameter, or a parameter left without value, raises TypeError
CallRaises(params, keywords) == keywords # params

\* self.update_state(state="PROGRESS", meta={progress, step, ...})
Progress(pct, step) == [progress |-> pct, step |-> step]

\* the result of a search that ran
SearchResult(molecule, countries) ==
    [kind |-> "report", molecule_name |-> StripText(molecule), target_countries |-> countries]

\* lines 31-45: the call of search_patents, progress(100), return; an
\* exception is logged and raised again
AfterSearch(progress, molecule, countries) ==
    IF CallRaises(SearchPatentsParams, TaskKeywords)
    THEN [ pc |-> "failed", progress |-> progress,
           out |-> [kind |-> "exception", type |-> "TypeError"] ]
    ELSE [ pc |-> "succeeded", progress |-> Append(progress, Progress(100, "Completed")),
           out |-> SearchResult(molecule, countries) ]

TaskCountries == { <<>>, <<"BR">>, <<"US">>, <<"US", "BR">> }

\* a task pharmyrus.search has been received by the worker
TaskInit ==
    /\ t_pc = "received"
    /\ t_molecule \in RunMolecules
    /\ t_countries \in TaskCountries
    /\ t_wipo \in BOOLEAN
    /\ t_progress = <<>>
    /\ t_out = NoReturn
    /\ MergeIdle /\ EnrichIdle /\ ExecIdle /\ RunIdle /\ NormIdle /\ AuditIdle /\ RatingIdle /\ DateIdle /\ FamilyIdle /\ QueryIdle

\* celery_app.py line 34 (task_track_started): the worker starts the task
TaskStarted ==
    /\ t_pc = "received"
    /\ t_pc' = "started"
    /\ UNCHANGED <<t_molecule, t_countries, t_wipo, t_progress, t_out>>
    /\ UNCHANGED <<mergeVars, enrichVars, execVars, runVars, normVars, auditVars, ratingVars, dateVars, familyVars, queryVars>>

\* tasks.py lines 12-29: progress(5, "Starting search")
StartingSearch ==
    /\ t_pc = "started"
    /\ t_progress' = Append(t_progress, Progress(5, "Starting search"))
    /\ t_pc' = "searching"
    /\ UNCHANGED <<t_molecule, t_countries, t_wipo, t_out>>
    /\ UNCHANGED <<mergeVars, enrichVars, execVars, runVars, normVars, auditVars, ratingVars, dateVars, familyVars, queryVars>>

\* tasks.py lines 31-45
RunSearch ==
    /\ t_pc = "searching"
    /\ LET after == AfterSearch(t_progress, t_molecule, t_countries)
       IN  /\ t_pc' = after.pc
           /\ t_progress' = after.progress
           /\ t_out' = after.out
    /\ UNCHANGED <<t_molecule, t_countries, t_wipo>>
    /\ UNCHANGED <<mergeVars, enrichVars, execVars, runVars, normVars, auditVars, ratingVars, dateVars, familyVars, queryVars>>

TaskNext == TaskStarted \/ StartingSearch \/ RunSearch

SpecTask == TaskInit /\ [][TaskNext]_vars

\* the worker runs a started task to its end
SpecTaskLive == SpecTask /\ WF_vars(TaskNext)

-----------------------------------------------------------------------------
(* Claims on the worker task (SpecTaskLive) *)

Completed ==
    /\ t_pc = "succeeded"
    /\ t_progress = <<Progress(5, "Starting search"), Progress(100, "Completed")>>
    /\ t_out.kind = "report"

\* C29 as stated: a task with a non-empty molecule eventually completes,
\* having reported progress 5 'Starting search', then progress 100
\* 'Completed', and returns the result of the search; and progress 100 is
\* never reported for a task that ends in an exception.
C29_TaskCompletes ==
    /\ (StripText(t_molecule) # "") ~> Completed
    /\ [](t_pc = "failed" =>
             \A i \in 1..Len(t_progress) : t_progress[i].progress # 100)
-----------------------------------------------------------------------------
(* Claims on the temporal strategy (SpecExec) *)

\* the calendar year a date text of the model stands for: YYYY-MM-DD or
\* DD/MM/YYYY
CalendarYear(text) ==
    CASE text = "01/05/2023" -> 2023
      [] text = "2019-01-01" -> 2019
      [] text = "2020-01-01" -> 2020
      [] text = "2021-01-01" -> 2021
      [] text = "2023-01-01" -> 2023
      [] text = "2023-05-01" -> 2023
      [] text = "31/12/1999" -> 1999

\* C30 as stated: every record the temporal-recent strategy contributes has
\* a filing date on or after 2023-01-01, whatever the format of the deposit
\* date, and the strategy's patents_found is the number of records it
\* returns.
C30_TemporalRecordsAreRecent ==
    x_res[4].kind = "ok" =>
        /\ \A i \in 1..Len(x_res[4].patents) :
              CalendarYear(x_res[4].patents[i].filing_date) >= 2023
        /\ x_res[4].metadata.patents_found = Len(x_res[4].patents)

=========================================================================
